---- MODULE Spec2Model ----
(***************************************************************************)
(* Flask-FlatPages: the page table (FlatPages), its file cache and the     *)
(* Page objects it hands out, over a file system that other processes      *)
(* write to.                                                               *)
(*                                                                         *)
(* Python strings are sequences of one-character strings, so that          *)
(* endswith, slicing, replace, lstrip, split, join and lower are computed  *)
(* as the code computes them.  A text (file content, metadata, body) is    *)
(* the sequence of its lines, i.e. text.split("\n"): it is never empty,    *)
(* the empty text being the one empty line.                                *)
(***************************************************************************)
EXTENDS Integers, Sequences, FiniteSets, TLC

\* ------------------------------------------------------------------ bounds
\* Page objects allocated in one behaviour.
MaxPages == 3
\* Greatest modification time a writer sets.
MaxMtime == 2
\* Directory levels below the root in the walker's paths taken alone.
MaxDepth == 2
\* The longest content, in lines, given to a parser checked by itself.
MaxLines == 4
\* The longest text, in lines, after a block scalar
MaxRest == 2
\* The lines the reader takes from the stream at a time
ReadLines == 1
\* The most arguments a configured renderer declares.
MaxArgs == 4

\* ----------------------------------------------------------- str methods
\* "".join(parts)
Concat(parts) ==
    LET RECURSIVE cat(_)
        cat(i) == IF i > Len(parts) THEN <<>> ELSE parts[i] \o cat(i + 1)
    IN  cat(1)

\* s.startswith(prefix)
StartsWith(s, prefix) ==
    /\ Len(prefix) <= Len(s)
    /\ SubSeq(s, 1, Len(prefix)) = prefix

\* s.endswith(suffix)
EndsWith(s, suffix) ==
    /\ Len(suffix) <= Len(s)
    /\ SubSeq(s, Len(s) - Len(suffix) + 1, Len(s)) = suffix

\* s[:-n]; in Python -0 is 0, so s[:-0] is s[:0], the empty string.
SliceOffEnd(s, n) ==
    IF n = 0 THEN <<>>
    ELSE IF n >= Len(s) THEN <<>>
    ELSE SubSeq(s, 1, Len(s) - n)

\* s.replace(old, ""): every non-overlapping occurrence, left to right.
\* old is never empty here (the root is an absolute path).
ReplaceWithEmpty(s, old) ==
    LET RECURSIVE rep(_)
        rep(t) ==
            IF t = <<>> THEN <<>>
            ELSE IF StartsWith(t, old)
                 THEN rep(SubSeq(t, Len(old) + 1, Len(t)))
                 ELSE <<Head(t)>> \o rep(Tail(t))
    IN  rep(s)

\* s.lstrip(ch)
LStrip(s, ch) ==
    LET RECURSIVE strip(_)
        strip(t) == IF t # <<>> /\ Head(t) = ch THEN strip(Tail(t)) ELSE t
    IN  strip(s)

\* s.split(sep) for a one-character sep: a sequence of strings, one more
\* than the occurrences of sep.
Split(s, sep) ==
    LET RECURSIVE split(_, _)
        split(t, cur) ==
            IF t = <<>> THEN <<cur>>
            ELSE IF Head(t) = sep
                 THEN <<cur>> \o split(Tail(t), <<>>)
                 ELSE split(Tail(t), Append(cur, Head(t)))
    IN  split(s, <<>>)

\* sep.join(parts) for a one-character sep
Join(parts, sep) ==
    LET RECURSIVE join(_)
        join(i) ==
            IF i > Len(parts) THEN <<>>
            ELSE IF i = Len(parts) THEN parts[i]
            ELSE parts[i] \o <<sep>> \o join(i + 1)
    IN  join(1)

\* s.lower(), over the letters the file names of the model use
LowerChar(c) ==
    CASE c = "A" -> "a"
      [] c = "B" -> "b"
      [] c = "D" -> "d"
      [] OTHER -> c

\* Lower as it would be if no letter were folded.
LowerNothing(s) == s

Lower(s) == [i \in 1..Len(s) |-> LowerChar(s[i])]

\* os.sep
Sep == "/"

\* os.path.join(a, b) for a relative b
PathJoin(a, b) ==
    IF a # <<>> /\ a[Len(a)] = Sep THEN a \o b ELSE a \o <<Sep>> \o b

\* ------------------------------------------------------------- the texts
\* The lines a file of the model is made of.
BlankLine == ""
KeyValueLine == "a: b"
PlainLine == "c"
CommentLine == "# x"
DocumentStartLine == "---"
DocumentEndLine == "..."
\* A plain line that starts at column 2.
IndentedLine == "  d"
\* A line of white space only
SpaceLine == " "
\* A key whose value is a literal block scalar on the lines that follow.
BlockScalarLine == "a: |"
\* A line holding the control character U+000B, which YAML does not allow.
ControlCharLine == "Hello World <U+000B>"

\* strip as it would be if it left the white space.
StripNothing(line) == line

\* line.strip() of a line of the model
Strip(line) == IF line \in {BlankLine, SpaceLine} THEN "" ELSE line

\* "\n".join(lines): the text whose lines they are; the join of no line is
\* the empty text, which has one empty line.
JoinLines(lines) == IF lines = <<>> THEN <<"">> ELSE lines

\* lstrip as it would be if it stripped one newline at most.
LStripOneNewline(text) ==
    IF Len(text) > 1 /\ Head(text) = "" THEN Tail(text) ELSE text

\* lstrip as it would be if it stripped nothing.
LStripNothing(text) == text

\* text.lstrip("\n")
LStripNewlines(text) ==
    LET RECURSIVE strip(_)
        strip(t) == IF Len(t) > 1 /\ Head(t) = "" THEN strip(Tail(t)) ELSE t
    IN  strip(text)

\* SliceFrom as it would be if the slice started one line later.
SliceFromTheNext(lines, i) == SubSeq(lines, i + 2, Len(lines))

\* lines[i:] and lines[:i] with Python's 0-based index i
SliceFrom(lines, i) == SubSeq(lines, i + 1, Len(lines))
SliceTo(lines, i) == SubSeq(lines, 1, i)

\* --------------------------------------------------- FlatPages._legacy_parser
\* takewhile(methodcaller("strip"), lines) consumes the lines up to and
\* including the first one that strips to nothing.
LegacyMetaLen(lines) ==
    LET RECURSIVE count(_)
        count(i) ==
            IF i > Len(lines) \/ Strip(lines[i]) = "" THEN i - 1
            ELSE count(i + 1)
    IN  count(1)

_legacy_parser(content) ==
    LET n == LegacyMetaLen(content)
    IN  [meta |-> JoinLines(SliceTo(content, n)),
         content |-> JoinLines(SliceFrom(content, n + 1)),
         raises |-> "none"]

\* -------------------------------------------------- FlatPages._libyaml_parser
\* The tokens of yaml.SafeLoader that the parser tells apart; line numbers
\* are 0-based as in yaml.Mark.  multiline: a plain scalar (style None)
\* whose value holds a newline.  at: the line the scanner is on when the
\* token is delivered.
Tok(type, line) ==
    [type |-> type, start_line |-> line, end_line |-> line,
     multiline |-> FALSE, at |-> line]

START_TOKENS ==
    {"BlockMappingStart", "BlockSequenceStart", "DocumentStart",
     "FlowMappingStart", "FlowSequenceStart", "Key"}

\* The reader takes the stream ReadLines lines at a time and rejects a
\* character that is not printable in what it takes.  The first line of the
\* read that brings the first such character (0 when there is none).
RejectedRead(content) ==
    LET bad == {i \in 1..Len(content) : content[i] = ControlCharLine}
        first == CHOOSE i \in bad : \A j \in bad : i <= j
    IN  IF bad = {} THEN 0
        ELSE ((first - 1) \div ReadLines) * ReadLines + 1

\* The two first reads are made when the loader is built on the content.
ReaderRejects(content) ==
    /\ RejectedRead(content) > 0
    /\ RejectedRead(content) <= ReadLines + 1

\* The column of the first character of a line that is not a space.
Column(line) == IF line = IndentedLine THEN 2 ELSE 0

\* scan_plain from the line i of the content (1-based), once the text of
\* this line is read: the scalar goes on over blank lines (empty or of
\* white space) with every line that is no comment and no document marker
\* and starts at min_col or beyond; a blank line between two of its lines
\* puts a newline in its value; of a "key: value" line it takes the key and
\* stops at the colon.  Gives the last line of the scalar, whether its value
\* holds a newline, the line the scanner is at, and whether it stopped at a
\* colon.
PlainScalar(content, i, min_col) ==
    LET RECURSIVE plain(_, _, _, _)
        plain(j, end, multiline, blank) ==
            IF j > Len(content)
            THEN [end |-> end, multiline |-> multiline, next |-> j,
                  colon |-> FALSE]
            ELSE IF content[j] \in {BlankLine, SpaceLine}
            THEN plain(j + 1, end, multiline, TRUE)
            ELSE IF \/ content[j] \in {CommentLine, DocumentStartLine,
                                      DocumentEndLine}
                    \/ Column(content[j]) < min_col
            THEN [end |-> end, multiline |-> multiline, next |-> j,
                  colon |-> FALSE]
            ELSE IF content[j] \in {KeyValueLine, BlockScalarLine}
            THEN [end |-> j, multiline |-> multiline \/ blank, next |-> j,
                  colon |-> TRUE]
            ELSE plain(j + 1, j, multiline \/ blank, FALSE)
    IN  plain(i + 1, i, FALSE, FALSE)

\* scan_block_scalar for the header on line i of the content (1-based): the
\* scalar takes the indented lines and the blank ones that follow, and its
\* end mark is at the start of the line that ends it, or on the last line
\* when the content ends first.  Gives the line of the end mark and the
\* line the scanner is at.
BlockScalar(content, i) ==
    LET RECURSIVE block(_)
        block(j) ==
            IF /\ j <= Len(content)
               /\ content[j] \in {BlankLine, SpaceLine, IndentedLine}
            THEN block(j + 1)
            ELSE j
    IN  [end |-> IF block(i + 1) > Len(content) THEN Len(content)
                 ELSE block(i + 1),
         next |-> block(i + 1)]

\* The scalar token of the lines first..last (1-based), delivered with the
\* scanner on the line next or, past the end, on the last of len lines.
ScalarTok(first, last, multiline, next, len) ==
    [type |-> "Scalar", start_line |-> first - 1, end_line |-> last - 1,
     multiline |-> multiline,
     at |-> (IF next > len THEN len ELSE next) - 1]

\* What the scanner gives from some line on: the tokens it delivers, whether
\* the call after the last of them raises, with which error and with the
\* scanner on which line (0-based).
Scanned(tokens, raises, error, at) ==
    [tokens |-> tokens, raises |-> raises, error |-> error, at |-> at]

\* Tokens delivered before those of the rest of the stream.
Before(tokens, rest) ==
    Scanned(tokens \o rest.tokens, rest.raises, rest.error, rest.at)

\* The token stream of the scanner after the stream start token, for a
\* content made of the lines above: the tokens it delivers and whether the
\* call after the last of them raises (otherwise that call and all later
\* ones return None).  mapping: a block mapping at column 0 is open.
\*   - blank lines, lines of white space and comment lines are skipped;
\*   - "---" and "..." close the block mapping and give a document token;
\*   - "key: value" at column 0 opens the block mapping if none is open and
\*     gives Key, Scalar, Value and the value's scalar, which goes on with
\*     indented lines; "key: |" does the same with a block scalar for the
\*     value, which is no plain scalar;
\*   - a plain line with no mapping open is a scalar that goes on with any
\*     line; the colon of a "key: value" line it has run into is an error
\*     (mapping values are not allowed here);
\*   - a plain line at column 0 inside the block mapping is a required
\*     simple key with no ':', an error raised once the scalar is scanned
\*     and before it is delivered; an indented one is a scalar;
\*   - the end of the stream closes the block mapping.
Scan(content) ==
    LET len == Len(content)
        last == len - 1
        Entry(i, mapping, value) ==
            (IF mapping THEN <<>> ELSE <<Tok("BlockMappingStart", i - 1)>>)
            \o <<Tok("Key", i - 1), Tok("Scalar", i - 1),
                 Tok("Value", i - 1), value>>
        RECURSIVE scan(_, _)
        scan(i, mapping) ==
            IF i > len
            THEN Scanned((IF mapping THEN <<Tok("BlockEnd", last)>>
                          ELSE <<>>) \o <<Tok("StreamEnd", last)>>,
                         FALSE, "none", last)
            ELSE IF content[i] \in {BlankLine, SpaceLine, CommentLine}
            THEN scan(i + 1, mapping)
            ELSE IF content[i] \in {DocumentStartLine, DocumentEndLine}
            THEN Before((IF mapping THEN <<Tok("BlockEnd", i - 1)>>
                         ELSE <<>>)
                        \o <<Tok(IF content[i] = DocumentStartLine
                                 THEN "DocumentStart" ELSE "DocumentEnd",
                                 i - 1)>>,
                        scan(i + 1, FALSE))
            ELSE IF content[i] = BlockScalarLine
            THEN LET value == BlockScalar(content, i)
                 IN  Before(Entry(i, mapping,
                                  ScalarTok(i, value.end, FALSE, value.next,
                                            len)),
                            scan(value.next, TRUE))
            ELSE IF content[i] = KeyValueLine
            THEN LET value == PlainScalar(content, i, 1)
                 IN  Before(Entry(i, mapping,
                                  ScalarTok(i, value.end, value.multiline,
                                            value.next, len)),
                            scan(value.next, TRUE))
            ELSE IF ~ mapping
            THEN LET plain == PlainScalar(content, i, 0)
                     token == ScalarTok(i, plain.end, plain.multiline,
                                        plain.next, len)
                 IN  IF plain.colon
                     THEN Scanned(<<token>>, TRUE, "ScannerError", token.at)
                     ELSE Before(<<token>>, scan(plain.next, FALSE))
            ELSE LET plain == PlainScalar(content, i, 1)
                     token == ScalarTok(i, plain.end, plain.multiline,
                                        plain.next, len)
                 IN  IF Column(content[i]) = 0
                     THEN Scanned(<<>>, TRUE, "ScannerError", token.at)
                     ELSE Before(<<token>>, scan(plain.next, TRUE))
    IN  scan(1, FALSE)

\* The stream as the reader lets it through: the call that brings the
\* scanner to the first line of the read with the rejected character raises
\* ReaderError in place of what the scanner would give.
Rejecting(scan, from) ==
    LET late == {k \in 1..Len(scan.tokens) : scan.tokens[k].at + 1 >= from}
        first == CHOOSE k \in late : \A j \in late : k <= j
    IN  IF from = 0 THEN scan
        ELSE IF late # {}
        THEN Scanned(SubSeq(scan.tokens, 1, first - 1), TRUE, "ReaderError",
                     from - 1)
        ELSE IF scan.raises /\ scan.at + 1 < from THEN scan
        ELSE Scanned(scan.tokens, TRUE, "ReaderError", from - 1)

\* The tokens the loader built on the content delivers.
Tokens(content) == Rejecting(Scan(content), RejectedRead(content))

\* yaml_loader.get_token() for the k-th call after the stream start token:
\* a token, None once the stream is exhausted, or an exception.
NoToken == [type |-> "None"]
RaisedToken == [type |-> "raise"]

\* get_token as it would be if the scanner gave up without an exception.
get_tokenNeverRaising(scan, k) ==
    IF k <= Len(scan.tokens) THEN scan.tokens[k] ELSE NoToken

get_token(scan, k) ==
    IF k <= Len(scan.tokens) THEN scan.tokens[k]
    ELSE IF scan.raises THEN RaisedToken
    ELSE NoToken

\* The test as it would be if the style of the scalar were not looked at: a
\* block scalar that runs over lines would pass it.
_check_newline_tokenOfAnyStyle(token) ==
    /\ token.type = "Scalar"
    /\ token.multiline \/ token.end_line > token.start_line

_check_newline_token(token) ==
    /\ token.type = "Scalar"
    /\ token.multiline

\* The test as it would be if only a document start ended the loop.
_check_continue_parsing_tokensButForDocumentEnd(token) ==
    ~ (token.type \in {"DocumentStart"} \/ token = NoToken)

_check_continue_parsing_tokens(token) ==
    ~ (token.type \in {"DocumentStart", "DocumentEnd"} \/ token = NoToken)

\* lines[from:].index("") with 0-based from; -1 stands for the ValueError
\* of a list without the empty string.
IndexOfEmpty(lines, from) ==
    LET RECURSIVE find(_)
        find(i) ==
            IF i > Len(lines) THEN -1
            ELSE IF lines[i] = "" THEN i - 1 - from
            ELSE find(i + 1)
    IN  find(from + 1)

\* The body of _libyaml_parser once the loader is built: scan is the token
\* stream of the content after the stream start token.
SplitAtTokens(content, scan) ==
    LET first == get_token(scan, 1)
    IN  IF first = RaisedToken
        THEN [meta |-> <<"">>, content |-> <<"">>, raises |-> scan.error]
        ELSE IF first.type \notin START_TOKENS
        THEN [meta |-> <<"">>, content |-> LStripNewlines(content),
              raises |-> "none"]
        ELSE
        LET lines == content
            \* the token in hand when the loop starts and the number of
            \* get_token calls made so far
            k0 == IF first.type = "DocumentStart" THEN 2 ELSE 1
            tok0 == get_token(scan, k0)
            \* the while loop, from the token in hand, the newline token
            \* and the number of get_token calls made
            RECURSIVE loop(_, _, _)
            loop(token, newline_token, k) ==
                IF ~ _check_continue_parsing_tokens(token)
                THEN <<token, newline_token>>
                ELSE LET next == get_token(scan, k + 1)
                     IN  IF next = RaisedToken
                         THEN <<token, newline_token>>
                         ELSE loop(next,
                                   IF next # NoToken
                                      /\ _check_newline_token(next)
                                      /\ newline_token = NoToken
                                   THEN next ELSE newline_token,
                                   k + 1)
            end == IF tok0 = RaisedToken
                   THEN <<RaisedToken, NoToken>>
                   ELSE loop(tok0, NoToken, k0)
            token == end[1]
            newline_token == end[2]
        IN  IF token = RaisedToken
            THEN [meta |-> <<"">>, content |-> <<"">>, raises |-> scan.error]
            ELSE IF token = NoToken /\ newline_token = NoToken
            THEN [meta |-> content, content |-> <<"">>, raises |-> "none"]
            ELSE
            LET idx == IF token # NoToken THEN 0
                       ELSE IndexOfEmpty(lines, newline_token.start_line)
                meta_end_line ==
                    IF token # NoToken THEN token.end_line + 1
                    ELSE newline_token.start_line + idx
            IN  IF idx < 0
                THEN [meta |-> <<"">>, content |-> <<"">>,
                      raises |-> "ValueError"]
                ELSE [meta |-> JoinLines(SliceTo(lines, meta_end_line)),
                      content |-> LStripNewlines(
                                    JoinLines(SliceFrom(lines, meta_end_line))),
                      raises |-> "none"]

_libyaml_parser(content) ==
    IF ReaderRejects(content)
    THEN [meta |-> <<"">>, content |-> <<"">>, raises |-> "ReaderError"]
    ELSE SplitAtTokens(content, Tokens(content))

\* ----------------------------------------------------------- Python dicts
EmptyDict == << >>

\* Put as it would be if a new dict were bound in place of the item set.
PutInFreshDict(d, k, v) == [x \in {k} |-> v]

\* d[k] = v
Put(d, k, v) == [x \in DOMAIN d \cup {k} |-> IF x = k THEN v ELSE d[x]]

\* the values of d
Values(d) == {d[k] : k \in DOMAIN d}

\* tuple(a_set): the elements in some order
Orderings(S) ==
    {t \in [1..Cardinality(S) -> S] :
        \A i, j \in 1..Cardinality(S) : i # j => t[i] # t[j]}

\* ------------------------------------------------------------ the files
\* The pages root (FlatPages.root) and the files that may exist under it:
\* a file is the directory it is in, as the names from the root down, and
\* its name.
Root == <<"/", "r">>

File(dir, name) == [dir |-> dir, name |-> name]

FileAH == File(<<>>, <<"a", ".", "h">>)
FileAT == File(<<>>, <<"a", ".", "t">>)
FileDBH == File(<< <<"d">> >>, <<"b", ".", "h">>)

Files == {FileAH, FileAT, FileDBH}

\* The directories of the tree, each with its parent.
Dirs == UNION {{SubSeq(f.dir, 1, n) : n \in 0..Len(f.dir)} : f \in Files}

SubDirs(dir) ==
    {d \in Dirs : Len(d) = Len(dir) + 1 /\ SubSeq(d, 1, Len(dir)) = dir}

\* cur_path of os.walk for a directory: os.path.join(top, name) at each level
CurPath(root, dir) ==
    LET RECURSIVE walk(_)
        walk(n) == IF n = 0 THEN root ELSE PathJoin(walk(n - 1), dir[n])
    IN  walk(Len(dir))

\* full_name = os.path.join(cur_path, name)
FullName(root, f) == PathJoin(CurPath(root, f.dir), f.name)

\* The contents a file may hold.
EmptyText == <<"">>
MetaText == <<"a: b", "", "c">>
BadText == <<ControlCharLine>>

Contents == {EmptyText, MetaText, BadText}

NoFile == [exists |-> FALSE]
FileStates ==
    {NoFile} \cup
    {[exists |-> TRUE, content |-> c, mtime |-> m] :
        c \in Contents, m \in 1..MaxMtime}

\* --------------------------------------------------------- configuration
\* FLATPAGES_EXTENSION as configured: a str, a list, a set, a tuple or a
\* value of another type.
ExtH == <<".", "h">>
ExtT == <<".", "t">>

ExtStr(chars) == [type |-> "str", val |-> chars]
ExtList(items) == [type |-> "list", val |-> items]
ExtSet(items) == [type |-> "set", val |-> items]
ExtTuple(items) == [type |-> "tuple", val |-> items]
ExtInt == [type |-> "int", val |-> 42]

\* NormalizedExtension as it would be if a value of any other type were
\* replaced by the default extension.
NormalizedExtensionOrDefault(extension) ==
    CASE extension.type = "str" ->
            IF \E i \in 1..Len(extension.val) : extension.val[i] = ","
            THEN {Split(extension.val, ",")}
            ELSE {<<extension.val>>}
      [] extension.type = "list" -> {extension.val}
      [] extension.type = "set" -> Orderings(extension.val)
      [] extension.type = "tuple" -> {extension.val}
      [] OTHER -> {<<ExtH>>}

\* The extension as _pages uses it: the tuples it may become (one, or any
\* order of a set), none when the value is not a string, list, set or tuple.
NormalizedExtension(extension) ==
    CASE extension.type = "str" ->
            IF \E i \in 1..Len(extension.val) : extension.val[i] = ","
            THEN {Split(extension.val, ",")}
            ELSE {<<extension.val>>}
      [] extension.type = "list" -> {extension.val}
      [] extension.type = "set" -> Orderings(extension.val)
      [] extension.type = "tuple" -> {extension.val}
      [] OTHER -> {}

Config(extension, case_insensitive, legacy_meta_parser, renderer_args) ==
    [root |-> Root,
     extension |-> extension,
     case_insensitive |-> case_insensitive,
     legacy_meta_parser |-> legacy_meta_parser,
     renderer_args |-> renderer_args]

\* The configurations of the page table model: one extension, two
\* extensions, and an extension that is no string and no sequence; the
\* default parser and a renderer taking (text, flatpages).
TableConfigs ==
    {Config(e, FALSE, FALSE, 2) :
        e \in {ExtStr(ExtH), ExtList(<<ExtH, ExtT>>), ExtInt}}

\* ---------------------------------------------------- FlatPages._pages._walker
\* name.endswith(extension) for a tuple of extensions
NameEndsWith(name, extension) ==
    \E i \in 1..Len(extension) : EndsWith(name, extension[i])

\* [name[:-len(item)] for item in extension if name.endswith(item)][0]
NameWithoutExtension(name, extension) ==
    LET i == CHOOSE k \in 1..Len(extension) :
                 /\ EndsWith(name, extension[k])
                 /\ \A j \in 1..(k - 1) : ~ EndsWith(name, extension[j])
    IN  SliceOffEnd(name, Len(extension[i]))

\* rel_path = cur_path.replace(self.root, "").lstrip(os.sep)
RelPath(root, cur_path) == LStrip(ReplaceWithEmpty(cur_path, root), Sep)

\* path_prefix = tuple(rel_path.split(os.sep)) if rel_path else ()
PathPrefix(rel_path) == IF rel_path = <<>> THEN <<>> ELSE Split(rel_path, Sep)

\* The path the walker yields for the file name in cur_path.
WalkerPath(root, cur_path, name, extension, case_insensitive) ==
    LET path == Join(PathPrefix(RelPath(root, cur_path))
                        \o <<NameWithoutExtension(name, extension)>>, "/")
    IN  IF case_insensitive THEN Lower(path) ELSE path

\* The logical path of a file of the tree under a configuration.
LogicalPath(cfg, extension, f) ==
    WalkerPath(cfg.root, CurPath(cfg.root, f.dir), f.name, extension,
               cfg.case_insensitive)

\* ------------------------------------------------------------------ Page
NoHtml == [set |-> FALSE]

\* Page(path, meta, content, html_renderer, folder): html is the slot of the
\* cached property.
Page(path, meta, body, html_renderer) ==
    [path |-> path, meta |-> meta, body |-> body,
     html_renderer |-> html_renderer, html |-> NoHtml]

\* What the configured renderer returns for a body.
Rendered(body) == [set |-> TRUE, value |-> <<"html">> \o body]

\* _parse as it would be if the Page were given the file's relative path,
\* extension included, in place of the logical path.
_parseWithRelPath(cfg, content, path) ==
    LET parsed == IF cfg.legacy_meta_parser
                  THEN _legacy_parser(content)
                  ELSE _libyaml_parser(content)
    IN  [raises |-> parsed.raises,
         page |-> Page(path \o ExtH, parsed.meta, parsed.content,
                       cfg.renderer_args)]

\* _parse as it would be if the renderer were fixed when the table is made.
_parseWithFirstRenderer(cfg, content, path) ==
    LET parsed == IF cfg.legacy_meta_parser
                  THEN _legacy_parser(content)
                  ELSE _libyaml_parser(content)
    IN  [raises |-> parsed.raises,
         page |-> Page(path, parsed.meta, parsed.content, 2)]

\* FlatPages._parse: the parser the configuration selects, then the Page.
_parse(cfg, content, path) ==
    LET parsed == IF cfg.legacy_meta_parser
                  THEN _legacy_parser(content)
                  ELSE _libyaml_parser(content)
    IN  [raises |-> parsed.raises,
         page |-> Page(path, parsed.meta, parsed.content, cfg.renderer_args)]

\* ------------------------------------------------------------- the state
VARIABLES
    config,        \* the application's FLATPAGES_* configuration
    fs,            \* the files under the root: content and mtime of each
    _file_cache,   \* FlatPages._file_cache: full name -> <<page, mtime>>
    _pages,        \* the cached property FlatPages._pages, when computed
    heap,          \* the Page objects made so far; a page is its index
    walk,          \* the walk of the directory in progress, if any
    ret,           \* the outcome of the call that has just ended
    seen,          \* the calls answered since _pages was last forgotten
    pure,          \* the last application of a function checked by itself
    reader         \* a reader of the snapshot: the dict object it holds

vars ==
    <<config, fs, _file_cache, _pages, heap, walk, ret, seen, pure, reader>>

NoSnapshot == [built |-> FALSE]
Snapshot(pages) == [built |-> TRUE, pages |-> pages]

NoWalk == [active |-> FALSE]
NoCur == [set |-> FALSE]
NoLoad == [set |-> FALSE]
\* accessed: a call was answered from _pages; set: get was answered, and
\* then the path and default of the first such call and the page it gave
\* (0 for the default).
NoSeen == [accessed |-> FALSE, set |-> FALSE, path |-> <<>>,
           default |-> "None", page |-> 0]
NoPure == [op |-> "none"]
\* installed: the dict the reader holds is the one in self.__dict__.
NoReader == [active |-> FALSE]
Reader(pages, installed) ==
    [active |-> TRUE, pages |-> pages, installed |-> installed]

\* The paths a caller asks for and the defaults it passes.
Paths == {<<"a">>}
Defaults == {"None", "42"}

\* A call of the table: get(path, default), get_or_404(path) or iteration.
GetCall(path, default) == [op |-> "get", path |-> path, default |-> default]
GetOr404Call(path) == [op |-> "get_or_404", path |-> path, default |-> "None"]
IterCall == [op |-> "iter", path |-> <<>>, default |-> "None"]
NoCall == [op |-> "none", path |-> <<>>, default |-> "None"]

Calls ==
    {GetCall(path, default) : path \in Paths, default \in Defaults}
    \cup {GetOr404Call(path) : path \in Paths}
    \cup {IterCall}

\* The outcome of a call: the exception raised if any; the value returned,
\* which is a Page (page > 0), the default (value) or the pages of an
\* iteration (pages); whether the call walked the directory (walked:
\* "no", "alone" when no process wrote under the root meanwhile, "raced"
\* otherwise), and what _load_file found for the file of the page returned.
Outcome(call, raised, page, value, pages, walked, load) ==
    [op |-> call.op, path |-> call.path, default |-> call.default,
     raised |-> raised, page |-> page, value |-> value, pages |-> pages,
     walked |-> walked, load |-> load]

NoOutcome == Outcome(NoCall, "none", 0, "None", {}, "no", NoLoad)

Walked(w) == IF w.raced THEN "raced" ELSE "alone"

InitialFile == [exists |-> TRUE, content |-> EmptyText, mtime |-> 1]

InitWith(configs) ==
    /\ config \in configs
    /\ fs = [f \in Files |-> InitialFile]
    /\ _file_cache = EmptyDict
    /\ _pages = NoSnapshot
    /\ heap = <<>>
    /\ walk = NoWalk
    /\ ret = NoOutcome
    /\ seen = NoSeen
    /\ pure = NoPure
    /\ reader = NoReader

Init == InitWith(TableConfigs)

\* No call is running and the outcome of the last one has been taken.
Idle == ~ walk.active /\ ret = NoOutcome

\* ---------------------------------------------- get, get_or_404, __iter__
\* get as it would be if the caller's default were dropped on a miss.
getWithoutDefault(pages, path, default) ==
    IF path \in DOMAIN pages
    THEN [page |-> pages[path], value |-> "Page"]
    ELSE [page |-> 0, value |-> "None"]

\* try: return pages[path]; except KeyError: return default
get(pages, path, default) ==
    IF path \in DOMAIN pages
    THEN [page |-> pages[path], value |-> "Page"]
    ELSE [page |-> 0, value |-> default]

\* page = self.get(path); if not page: abort(404); return page
get_or_404(pages, path) ==
    LET page == get(pages, path, "None")
    IN  [raised |-> IF page.page = 0 THEN "NotFound" ELSE "none",
         page |-> page.page, value |-> page.value]

\* six.itervalues(self._pages)
itervalues(pages) == Values(pages)

\* What _load_file found for the page a call returns, if the call walked.
LoadOf(loaded, path) ==
    IF path \in DOMAIN loaded THEN loaded[path] ELSE NoLoad

\* The rest of a call once self._pages is in hand.
Finish(call, pages, walked, loaded, seen0) ==
    CASE call.op = "get" ->
           LET got == get(pages, call.path, call.default)
           IN  /\ ret' = Outcome(call, "none", got.page, got.value, {},
                                 walked, LoadOf(loaded, call.path))
               /\ seen' = IF seen0.set THEN seen0
                          ELSE [accessed |-> TRUE, set |-> TRUE,
                                path |-> call.path, default |-> call.default,
                                page |-> got.page]
      [] call.op = "get_or_404" ->
           LET got == get_or_404(pages, call.path)
           IN  /\ ret' = Outcome(call, got.raised, got.page, got.value, {},
                                 walked, LoadOf(loaded, call.path))
               /\ seen' = [seen0 EXCEPT !.accessed = TRUE]
      [] call.op = "iter" ->
           /\ ret' = Outcome(call, "none", 0, "iterator", itervalues(pages),
                             walked, NoLoad)
           /\ seen' = [seen0 EXCEPT !.accessed = TRUE]

\* Raise as it would be if the mapping built so far were kept as _pages.
RaiseKeepingPages(exception) ==
    /\ ret' = Outcome([op |-> "call", path |-> <<>>, default |-> "None"],
                      exception, 0, "None", {},
                      IF walk.active THEN Walked(walk) ELSE "alone", NoLoad)
    /\ walk' = NoWalk
    /\ _pages' = IF walk.active THEN Snapshot(walk.pages) ELSE _pages
    /\ UNCHANGED seen

\* Raise as it would be if the walk went on after the exception.
RaiseAndGoOn(exception) ==
    /\ ret' = Outcome([op |-> "call", path |-> <<>>, default |-> "None"],
                      exception, 0, "None", {},
                      IF walk.active THEN Walked(walk) ELSE "alone", NoLoad)
    /\ walk' = walk
    /\ UNCHANGED <<_pages, seen>>

\* The call ends with an exception out of _pages; nothing is installed.
\* (Which call it is has no part in the walk; the outcome names none.)
Raise(exception) ==
    /\ ret' = Outcome([op |-> "call", path |-> <<>>, default |-> "None"],
                      exception, 0, "None", {},
                      IF walk.active THEN Walked(walk) ELSE "alone", NoLoad)
    /\ walk' = NoWalk
    /\ UNCHANGED <<_pages, seen>>

\* PagesCached as it would be if _pages were an uncached property.
PagesNeverCached(pages) == FALSE

\* self._pages is in the instance's __dict__ once the property was computed.
PagesCached(pages) == pages.built

\* A call enters: with _pages cached it ends at once; otherwise the property
\* runs, reads and checks the extension and starts the walk.
Enter(call) ==
    /\ Idle
    /\ IF PagesCached(_pages)
       THEN /\ Finish(call, _pages.pages, "no", EmptyDict, seen)
            /\ UNCHANGED <<_pages, walk>>
       ELSE IF NormalizedExtension(config.extension) = {}
       THEN Raise("ValueError")
       ELSE /\ \E extension \in NormalizedExtension(config.extension) :
                 walk' = [active |-> TRUE, extension |-> extension,
                          dirs |-> << <<>> >>, names |-> {},
                          cur |-> NoCur, mtime |-> 0,
                          pages |-> EmptyDict, loaded |-> EmptyDict,
                          raced |-> FALSE]
            /\ UNCHANGED <<_pages, ret, seen>>
    /\ UNCHANGED <<config, fs, _file_cache, heap, pure, reader>>

Get(path, default) == Enter(GetCall(path, default))

GetOr404(path) == Enter(GetOr404Call(path))

Iter == Enter(IterCall)

\* The caller takes the outcome of the call and goes on.
Continue ==
    /\ ret # NoOutcome
    /\ ret' = NoOutcome
    /\ pure' = NoPure
    /\ UNCHANGED <<config, fs, _file_cache, _pages, heap, walk, seen, reader>>

\* ------------------------------------------------- the walk of _pages
\* os.walk lists the next directory: its files become the names to visit,
\* its subdirectories are walked after them.  Names that do not end with an
\* accepted extension are skipped by the walker.
ListedAtTheRoot(files, dir, extension) ==
    {f \in Files : /\ dir = <<>>
                   /\ f.dir = dir
                   /\ files[f].exists
                   /\ \E i \in 1..Len(extension) : EndsWith(f.name, extension[i])}

Listed(files, dir, extension) ==
    {f \in Files : /\ f.dir = dir
                   /\ files[f].exists
                   /\ NameEndsWith(f.name, extension)}

ListDir ==
    /\ walk.active
    /\ walk.names = {}
    /\ ~ walk.cur.set
    /\ walk.dirs # <<>>
    /\ LET dir == Head(walk.dirs)
       IN  \E subdirs \in Orderings(SubDirs(dir)) :
             walk' = [walk EXCEPT
                        !.dirs = subdirs \o Tail(walk.dirs),
                        !.names = Listed(fs, dir, walk.extension)]
    /\ UNCHANGED <<config, fs, _file_cache, _pages, heap, ret, seen, pure, reader>>

\* getmtime as it would be if it gave the time of the call: the latest time
\* there is.
getmtimeOfTheCall(file) == MaxMtime

\* os.path.getmtime(filepath)
getmtime(file) == file.mtime

\* CacheHit as it would be if the mtime were not compared.
CacheHitByName(cache, filename, mtime) == filename \in DOMAIN cache

\* CacheHit as it would be if only a newer cache entry were refused.
CacheHitIfNotOlder(cache, filename, mtime) ==
    /\ filename \in DOMAIN cache
    /\ cache[filename][2] <= mtime

\* cached and cached[1] == mtime
CacheHit(cache, filename, mtime) ==
    /\ filename \in DOMAIN cache
    /\ cache[filename][2] = mtime

\* What _load_file found for a file: the mtime it read, the page and mtime
\* the cache held before (<<0, 0>> for none), whether the cached page was
\* taken, the content it read (none on a hit) and the page it returned.
Loaded(file, mtime, cache, filename, hit, content, page) ==
    [set |-> TRUE, file |-> file, mtime |-> mtime,
     cached |-> IF filename \in DOMAIN cache THEN cache[filename] ELSE <<0, 0>>,
     hit |-> hit, content |-> content, page |-> page]

\* Collides as it would be if the test for the path were left out.
CollidesNever(pages, path) == FALSE

\* if path in pages: raise ValueError
Collides(pages, path) == path \in DOMAIN pages

\* The walker yields the next file; a path already in pages is a collision.
\* Otherwise _load_file reads the file's mtime and takes the cached page if
\* the cache holds one with this mtime.
LoadFileStat(f) ==
    /\ walk.active
    /\ ~ walk.cur.set
    /\ f \in walk.names
    /\ LET path == LogicalPath(config, walk.extension, f)
           filename == FullName(config.root, f)
       IN  IF Collides(walk.pages, path)
           THEN Raise("ValueError")
           ELSE IF ~ fs[f].exists
           THEN Raise("FileNotFoundError")
           ELSE IF CacheHit(_file_cache, filename, getmtime(fs[f]))
           THEN /\ walk' = [walk EXCEPT
                             !.names = walk.names \ {f},
                             !.pages = Put(walk.pages, path,
                                           _file_cache[filename][1]),
                             !.loaded = Put(walk.loaded, path,
                                            Loaded(f, getmtime(fs[f]), _file_cache,
                                                   filename, TRUE, <<>>,
                                                   _file_cache[filename][1]))]
                /\ UNCHANGED <<_pages, ret, seen>>
           ELSE /\ walk' = [walk EXCEPT !.cur = [set |-> TRUE, file |-> f],
                                        !.mtime = getmtime(fs[f])]
                /\ UNCHANGED <<_pages, ret, seen>>
    /\ UNCHANGED <<config, fs, _file_cache, heap, pure, reader>>

\* A new Page object among the objects made so far.
NewPage(pages, page) == Append(pages, page)

\* _load_file opens and reads the file, parses it into a new Page and
\* stores the page with the mtime read before.
LoadFileRead ==
    /\ walk.active
    /\ walk.cur.set
    /\ LET f == walk.cur.file
           path == LogicalPath(config, walk.extension, f)
           filename == FullName(config.root, f)
           parsed == _parse(config, fs[f].content, path)
           page == Len(heap) + 1
       IN  IF ~ fs[f].exists
           THEN /\ Raise("FileNotFoundError")
                /\ UNCHANGED <<heap, _file_cache>>
           ELSE IF parsed.raises # "none"
           THEN /\ Raise(parsed.raises)
                /\ UNCHANGED <<heap, _file_cache>>
           ELSE /\ Len(heap) < MaxPages
                /\ heap' = NewPage(heap, parsed.page)
                /\ _file_cache' = Put(_file_cache, filename,
                                      <<page, walk.mtime>>)
                /\ walk' = [walk EXCEPT
                             !.names = walk.names \ {f},
                             !.cur = NoCur,
                             !.pages = Put(walk.pages, path, page),
                             !.loaded = Put(walk.loaded, path,
                                            Loaded(f, walk.mtime, _file_cache,
                                                   filename, FALSE,
                                                   fs[f].content, page))]
                /\ UNCHANGED <<_pages, ret, seen>>
    /\ UNCHANGED <<config, fs, pure, reader>>

\* return pages: the property's value is stored on the instance and the
\* call that asked for it goes on with it.  Which call it is has no part in
\* the walk, so it is told apart only here.
Return ==
    /\ walk.active
    /\ walk.names = {}
    /\ ~ walk.cur.set
    /\ walk.dirs = <<>>
    /\ _pages' = Snapshot(walk.pages)
    /\ \E call \in Calls :
          Finish(call, walk.pages, Walked(walk), walk.loaded, seen)
    /\ walk' = NoWalk
    /\ UNCHANGED <<config, fs, _file_cache, heap, pure, reader>>

\* ------------------------------------------------------ FlatPages.reload
\* Forget as it would be if reload left the computed value in place.
ForgetNothing(pages) == pages

\* del self.__dict__["_pages"], a KeyError being ignored
Forget(pages) == NoSnapshot

\* The dict as it would be left if reload cleared it in place.
LeftCleared(pages) == EmptyDict

\* del self.__dict__["_pages"]: the dict loses a reference and keeps its
\* items.
Left(pages) == pages

\* What reload does to the dict a reader holds: the installed one is left
\* out of self.__dict__, another one is not concerned.
Detached(r) ==
    IF r.active /\ r.installed THEN Reader(Left(r.pages), FALSE) ELSE r

\* Reload as it would be if it also emptied the file cache.
ReloadEmptyingTheCache ==
    /\ Idle
    /\ _pages' = Forget(_pages)
    /\ _file_cache' = EmptyDict
    /\ seen' = NoSeen
    /\ reader' = Detached(reader)
    /\ UNCHANGED <<config, fs, heap, walk, ret, pure>>

Reload ==
    /\ Idle
    /\ _pages' = Forget(_pages)
    /\ seen' = NoSeen
    /\ reader' = Detached(reader)
    /\ UNCHANGED <<config, fs, _file_cache, heap, walk, ret, pure>>

\* ------------------------------------------------------- other processes
\* The contents and mtimes other processes give a file: one file is
\* rewritten at will, one is only created and removed, the file of the
\* subdirectory is left alone.
WrittenContents(f) ==
    CASE f = FileAH -> Contents
      [] f = FileAT -> {EmptyText}
      [] OTHER -> {}

WrittenMtimes(f) == IF f = FileAH THEN 1..MaxMtime ELSE {1}

\* A walk in progress has now run while a process wrote under the root.
Raced(w) == IF w.active THEN [w EXCEPT !.raced = TRUE] ELSE w

\* A process writes a file (creating it if need be); its mtime becomes the
\* time of the write, or the time the writer sets with utime.
Write(f, content, mtime) ==
    /\ ret = NoOutcome
    /\ content \in WrittenContents(f)
    /\ mtime \in WrittenMtimes(f)
    /\ fs[f] # [exists |-> TRUE, content |-> content, mtime |-> mtime]
    /\ fs' = [fs EXCEPT ![f] = [exists |-> TRUE, content |-> content,
                                mtime |-> mtime]]
    /\ walk' = Raced(walk)
    /\ UNCHANGED <<config, _file_cache, _pages, heap, ret, seen, pure, reader>>

\* A process removes a file.
Remove(f) ==
    /\ ret = NoOutcome
    /\ WrittenContents(f) # {}
    /\ fs[f].exists
    /\ fs' = [fs EXCEPT ![f] = NoFile]
    /\ walk' = Raced(walk)
    /\ UNCHANGED <<config, _file_cache, _pages, heap, ret, seen, pure, reader>>

Next ==
    \/ \E path \in Paths, default \in Defaults : Get(path, default)
    \/ \E path \in Paths : GetOr404(path)
    \/ Iter
    \/ Continue
    \/ ListDir
    \/ \E f \in Files : LoadFileStat(f)
    \/ LoadFileRead
    \/ Return
    \/ Reload
    \/ \E f \in Files, content \in Contents, mtime \in 1..MaxMtime :
          Write(f, content, mtime)
    \/ \E f \in Files : Remove(f)

Spec == Init /\ [][Next]_vars

\* ------------------------------------------------- the walk runs to its end
\* The thread that is in _pages runs on: each step of the walk is taken once
\* it can be.  Callers and writers come when they please.
WalkStep == ListDir \/ Return

\* _load_file can take its next step: with a file in hand it reads it,
\* whatever the file holds, as long as a Page object can still be made;
\* with names left to visit it takes the mtime of one.
CanLoad ==
    /\ walk.active
    /\ IF walk.cur.set THEN Len(heap) < MaxPages ELSE walk.names # {}

\* A step taken while a file is in hand or names are left, and that writes
\* nothing under the root: no caller enters during a walk, so the step is
\* LoadFileStat or LoadFileRead.
LoadStep ==
    /\ walk.active
    /\ walk.cur.set \/ walk.names # {}
    /\ fs' = fs

\* Weak fairness of the two steps of _load_file, their enabling condition
\* and their steps being written out.
LoadFairness == []<>(~ CanLoad) \/ []<><<LoadStep>>_vars

SpecFair == Init /\ [][Next]_vars /\ WF_vars(WalkStep) /\ LoadFairness

\* ------------------------------------------------- writers with a clock
\* A process writes a file at a time later than the file's mtime.
WriteLater(f, content) ==
    Write(f, content, IF fs[f].exists THEN fs[f].mtime + 1 ELSE 1)

NextClock ==
    \/ \E path \in Paths, default \in Defaults : Get(path, default)
    \/ \E path \in Paths : GetOr404(path)
    \/ Iter
    \/ Continue
    \/ ListDir
    \/ \E f \in Files : LoadFileStat(f)
    \/ LoadFileRead
    \/ Return
    \/ Reload
    \/ \E f \in Files, content \in Contents : WriteLater(f, content)

SpecClock == Init /\ [][NextClock]_vars

\* -------------------------------------------------------------- Page.html
\* HtmlCached as it would be if html were a plain property.
HtmlNeverCached(page) == FALSE

\* cached_property: the value is in the instance's __dict__ once computed.
HtmlCached(page) == page.html.set

\* getfullargspec(html_renderer) raises TypeError, as for a callable with
\* no signature to read: written as the argument count -1.
NoArgSpec == 0 - 1

\* What wrapper does with the renderer: the arguments it calls it with, or
\* the exception it raises with what its message is formatted with.
Call(args) == [raises |-> "none", args |-> args, format |-> << >>]

\* wrapper as it would be if a renderer of any other signature were called
\* with the body.
wrapperCallingAnyway(args_length) == Call(<<"body">>)

\* wrapper(page) of _smart_html_renderer for a renderer that declares
\* args_length arguments: html_renderer(body), html_renderer(body, self) or
\* html_renderer(body, self, page), or ValueError formatted with the
\* renderer and the count.
wrapper(args_length) ==
    CASE args_length = NoArgSpec -> Call(<<"body">>)
      [] args_length = 1 -> Call(<<"body">>)
      [] args_length = 2 -> Call(<<"body", "self">>)
      [] args_length = 3 -> Call(<<"body", "self", "page">>)
      [] OTHER -> [raises |-> "ValueError", args |-> << >>,
                   format |-> <<"html_renderer", args_length>>]

\* The caller reads page.html of the page it was given.  With a value
\* cached it is returned and the renderer is not called; otherwise wrapper
\* calls the renderer, and what it returns is cached, nothing when the
\* renderer or wrapper raises.
Html(id, raises) ==
    /\ ret # NoOutcome
    /\ id > 0
    /\ ret.page = id
    /\ IF HtmlCached(heap[id])
       THEN /\ pure' = [op |-> "html", page |-> id, called |-> FALSE,
                        raised |-> FALSE, value |-> heap[id].html,
                        call |-> Call(<< >>)]
            /\ UNCHANGED heap
       ELSE /\ wrapper(heap[id].html_renderer).raises # "none" => raises
            /\ pure' = [op |-> "html", page |-> id,
                        called |->
                            wrapper(heap[id].html_renderer).raises = "none",
                        raised |-> raises,
                        value |-> IF raises THEN NoHtml
                                  ELSE Rendered(heap[id].body),
                        call |-> wrapper(heap[id].html_renderer)]
            /\ heap' = [heap EXCEPT
                          ![id].html = IF raises THEN @
                                       ELSE Rendered(heap[id].body)]
    /\ UNCHANGED <<config, fs, _file_cache, _pages, walk, ret, seen, reader>>

\* The page table with one extension, whose callers render the pages.
PageConfigs == {Config(ExtStr(ExtH), FALSE, FALSE, 2)}

InitPage == InitWith(PageConfigs)

NextPage ==
    \/ Next
    \/ \E id \in 1..MaxPages, raises \in BOOLEAN : Html(id, raises)

SpecPage == InitPage /\ [][NextPage]_vars

\* The page table with renderers of every signature, whose callers render
\* the pages.
RendererArgs == {NoArgSpec} \cup 0..MaxArgs

RenderConfigs ==
    {Config(ExtStr(ExtH), FALSE, FALSE, n) : n \in RendererArgs}

InitRender == InitWith(RenderConfigs)

NextRender ==
    \/ \E path \in Paths : Get(path, "None")
    \/ Continue
    \/ ListDir
    \/ \E f \in Files : LoadFileStat(f)
    \/ LoadFileRead
    \/ Return
    \/ Reload
    \/ \E mtime \in 1..MaxMtime : Write(FileAH, MetaText, mtime)
    \/ \E id \in 1..MaxPages, raises \in BOOLEAN : Html(id, raises)

SpecRender == InitRender /\ [][NextRender]_vars

\* ------------------------------------- the file cache and the configuration
\* self._file_cache = {}: the caller empties the file cache.
Empty ==
    /\ Idle
    /\ _file_cache # EmptyDict
    /\ _file_cache' = EmptyDict
    /\ UNCHANGED <<config, fs, _pages, heap, walk, ret, seen, pure, reader>>

\* The application changes FLATPAGES_LEGACY_META_PARSER or the renderer
\* between two calls; self.config reads the value in force at each use.
Reconfigure(legacy_meta_parser, renderer_args) ==
    /\ Idle
    /\ config' = [config EXCEPT !.legacy_meta_parser = legacy_meta_parser,
                                !.renderer_args = renderer_args]
    /\ config' # config
    /\ UNCHANGED <<fs, _file_cache, _pages, heap, walk, ret, seen, pure, reader>>

\* The renderers the application configures, by the arguments they take.
Renderers == {1, 2}

CacheConfigs == {Config(ExtStr(ExtH), FALSE, FALSE, 2)}

InitCache == InitWith(CacheConfigs)

NextCache ==
    \/ \E path \in Paths : Get(path, "None")
    \/ Continue
    \/ ListDir
    \/ \E f \in Files : LoadFileStat(f)
    \/ LoadFileRead
    \/ Return
    \/ Reload
    \/ \E mtime \in 1..MaxMtime : Write(FileAH, MetaText, mtime)
    \/ Remove(FileAH)
    \/ Empty
    \/ \E legacy_meta_parser \in BOOLEAN, renderer_args \in Renderers :
          Reconfigure(legacy_meta_parser, renderer_args)

SpecCache == InitCache /\ [][NextCache]_vars

\* ------------------------------------------------- the before-request hook
\* The values FLATPAGES_AUTO_RELOAD takes: a bool or a string.
Bool(b) == [type |-> "bool", bool |-> b, str |-> ""]
Str(s) == [type |-> "str", bool |-> FALSE, str |-> s]

\* Python's truth value of such a value.
Truthy(value) == IF value.type = "bool" THEN value.bool ELSE value.str # ""

AutoReloads == {Bool(TRUE), Bool(FALSE), Str("if debug"), Str("always"), Str("")}

\* The resolution as it would be if "if debug" were taken for its own truth.
AutoIgnoringDebug(auto_reload, debug) == auto_reload

\* auto = self.config("auto_reload")
\* if auto == "if debug": auto = self.app.debug
Auto(auto_reload, debug) ==
    IF auto_reload = Str("if debug") THEN Bool(debug) ELSE auto_reload

\* The configuration of a table and of its application: the setting of
\* auto_reload and the application's debug flag.
RequestConfig(cfg, auto_reload, debug) ==
    [root |-> cfg.root,
     extension |-> cfg.extension,
     case_insensitive |-> cfg.case_insensitive,
     legacy_meta_parser |-> cfg.legacy_meta_parser,
     renderer_args |-> cfg.renderer_args,
     auto_reload |-> auto_reload,
     debug |-> debug]

RequestConfigs ==
    {RequestConfig(Config(ExtStr(ExtH), FALSE, FALSE, 2), auto_reload, debug) :
        auto_reload \in AutoReloads, debug \in BOOLEAN}

\* _conditional_auto_reset, which init_app registers with before_request:
\* the application calls it before each request, and it calls reload if the
\* resolved setting is true.  The event keeps what get had answered before.
BeforeRequest ==
    /\ Idle
    /\ LET auto == Auto(config.auto_reload, config.debug)
       IN  /\ IF Truthy(auto)
              THEN /\ _pages' = Forget(_pages)
                   /\ seen' = NoSeen
                   /\ reader' = Detached(reader)
              ELSE UNCHANGED <<_pages, seen, reader>>
           /\ pure' = [op |-> "before_request", reloaded |-> Truthy(auto),
                       set |-> seen.set, path |-> seen.path, page |-> seen.page]
    /\ UNCHANGED <<config, fs, _file_cache, heap, walk, ret>>

InitRequest == InitWith(RequestConfigs)

NextRequest ==
    \/ \E path \in Paths : Get(path, "None")
    \/ Continue
    \/ ListDir
    \/ \E f \in Files : LoadFileStat(f)
    \/ LoadFileRead
    \/ Return
    \/ \E content \in Contents, mtime \in 1..MaxMtime :
          Write(FileAH, content, mtime)
    \/ BeforeRequest

SpecRequest == InitRequest /\ [][NextRequest]_vars

\* ------------------------------------------------ a reader of the snapshot
\* __iter__ hands out six.itervalues(self._pages): the reader holds the
\* installed dict and reads it while the table goes on.
StartReading ==
    /\ Idle
    /\ ~ reader.active
    /\ _pages.built
    /\ reader' = Reader(_pages.pages, TRUE)
    /\ UNCHANGED <<config, fs, _file_cache, _pages, heap, walk, ret, seen, pure>>

\* The reader is done and lets go of the dict.
StopReading ==
    /\ reader.active
    /\ reader' = NoReader
    /\ UNCHANGED <<config, fs, _file_cache, _pages, heap, walk, ret, seen, pure>>

ReaderConfigs == {Config(ExtStr(ExtH), FALSE, FALSE, 2)}

InitReader == InitWith(ReaderConfigs)

NextReader ==
    \/ \E path \in Paths : Get(path, "None")
    \/ Iter
    \/ Continue
    \/ ListDir
    \/ \E f \in Files : LoadFileStat(f)
    \/ LoadFileRead
    \/ Return
    \/ Reload
    \/ \E content \in Contents, mtime \in 1..MaxMtime :
          Write(FileAH, content, mtime)
    \/ Remove(FileAH)
    \/ StartReading
    \/ StopReading

SpecReader == InitReader /\ [][NextReader]_vars

\* ------------------------------------------------ parsers.yaml.load_meta
\* The key of a "key: value" line.
KeyOf(line) == "a"

\* d.update(e) as it would be if the keys d holds already kept their values.
UpdateKeepingOld(d, e) ==
    [k \in DOMAIN d \cup DOMAIN e |-> IF k \in DOMAIN d THEN d[k] ELSE e[k]]

\* d.update(e)
Update(d, e) ==
    [k \in DOMAIN d \cup DOMAIN e |-> IF k \in DOMAIN e THEN e[k] ELSE d[k]]

\* What decoding gives: the exception raised if any, else the dict.  A
\* value is written as the lines its scalar spans.
Decoded(raises, meta) == [raises |-> raises, meta |-> meta]

\* safe_load_all and the loop of load_meta over it, scan being the token
\* stream of the text: safe_load_all yields the documents of the text one
\* by one, each composed from the tokens of the scanner; a document that is
\* not None is merged into the dict with update.
\*   - the first document starts without "---" unless the stream starts
\*     with it or is empty; every later one needs it; "..." ends a document
\*     and further "..." are skipped;
\*   - a document with no node is None; a scalar gives a str, which update
\*     refuses; a block mapping gives a dict of its entries and must end
\*     with the block end.
LoadDocuments(meta_yaml, scan) ==
    LET type(k) == get_token(scan, k).type
        \* the lines of a value: from the line of its key to the last
        \* indented line the token spans
        value(k) ==
            LET first == scan.tokens[k].start_line + 1
                lines == {j \in first..(scan.tokens[k].end_line + 1) :
                             j = first \/ meta_yaml[j] = IndentedLine}
            IN  SubSeq(meta_yaml, first,
                       CHOOSE j \in lines : \A m \in lines : m <= j)
        \* the entries of a block mapping from token k on
        RECURSIVE mapping(_, _)
        mapping(k, d) ==
            CASE type(k) = "raise" ->
                   [raises |-> scan.error, kind |-> "none", next |-> k]
              [] type(k) = "Key" ->
                   IF type(k + 3) = "raise"
                   THEN [raises |-> scan.error, kind |-> "none",
                         next |-> k]
                   ELSE mapping(k + 4,
                                Put(d, KeyOf(meta_yaml[
                                        scan.tokens[k].start_line + 1]),
                                    value(k + 3)))
              [] type(k) = "BlockEnd" ->
                   [raises |-> "none", kind |-> "dict", dict |-> d,
                    next |-> k + 1]
              [] OTHER ->
                   [raises |-> "ParserError", kind |-> "none", next |-> k]
        \* the node that starts at token k
        node(k) ==
            CASE type(k) = "raise" ->
                   [raises |-> scan.error, kind |-> "none", next |-> k]
              [] type(k) = "Scalar" ->
                   [raises |-> "none", kind |-> "str", next |-> k + 1]
              [] type(k) = "BlockMappingStart" -> mapping(k + 1, EmptyDict)
              [] OTHER ->
                   [raises |-> "ParserError", kind |-> "none", next |-> k]
        RECURSIVE skip(_)
        skip(k) == IF type(k) = "DocumentEnd" THEN skip(k + 1) ELSE k
        RECURSIVE documents(_, _, _)
        \* the document whose node n is composed, then the rest
        document(n, meta) ==
            IF n.raises # "none" THEN Decoded(n.raises, EmptyDict)
            ELSE IF type(n.next) = "raise"
            THEN Decoded(scan.error, EmptyDict)
            ELSE IF n.kind = "str" THEN Decoded("ValueError", EmptyDict)
            ELSE documents(IF type(n.next) = "DocumentEnd"
                           THEN n.next + 1 ELSE n.next,
                           FALSE,
                           IF n.kind = "dict" THEN Update(meta, n.dict)
                           ELSE meta)
        documents(k, first, meta) ==
            IF type(k) = "raise" THEN Decoded(scan.error, EmptyDict)
            ELSE IF first /\ type(k) \notin {"DocumentStart", "StreamEnd"}
            THEN document(node(k), meta)
            ELSE LET start == skip(k)
                 IN  IF type(start) = "raise"
                     THEN Decoded(scan.error, EmptyDict)
                     ELSE IF type(start) = "StreamEnd"
                     THEN Decoded("none", meta)
                     ELSE IF type(start) # "DocumentStart"
                     THEN Decoded("ParserError", EmptyDict)
                     ELSE IF type(start + 1) = "raise"
                     THEN Decoded(scan.error, EmptyDict)
                     ELSE IF type(start + 1) \in
                               {"DocumentStart", "DocumentEnd", "StreamEnd"}
                     THEN document([raises |-> "none", kind |-> "None",
                                    next |-> start + 1], meta)
                     ELSE document(node(start + 1), meta)
    IN  documents(1, TRUE, EmptyDict)

load_meta(meta_yaml) ==
    IF ReaderRejects(meta_yaml) THEN Decoded("ReaderError", EmptyDict)
    ELSE LoadDocuments(meta_yaml, Tokens(meta_yaml))

\* ------------------------------------------------- the parsers by themselves
\* The lines of the contents given to the parser.
ParseLines ==
    {BlankLine, KeyValueLine, PlainLine, CommentLine, DocumentStartLine,
     DocumentEndLine, IndentedLine}

\* The contents: content.split("\n") is never empty.
ParseContents ==
    UNION {[1..n -> ParseLines] : n \in 1..MaxLines}

InitParse == InitWith({Config(ExtStr(ExtH), FALSE, FALSE, 2)})

\* libyaml_parser(content, path): the split of _libyaml_parser, then
\* load_meta on the metadata text.
LibyamlParser(content) ==
    /\ pure = NoPure
    /\ LET split == _libyaml_parser(content)
       IN  pure' = [op |-> "libyaml_parser", content |-> content,
                    raises |-> split.raises, meta |-> split.meta,
                    body |-> split.content,
                    meta_dict |-> IF split.raises = "none"
                                  THEN load_meta(split.meta)
                                  ELSE Decoded(split.raises, EmptyDict)]
    /\ UNCHANGED <<config, fs, _file_cache, _pages, heap, walk, ret, seen,
                   reader>>

NextParse == \E content \in ParseContents : LibyamlParser(content)

SpecParse == InitParse /\ [][NextParse]_vars

\* The two parsers on contents that hold lines of white space.
SplitLines ==
    {BlankLine, SpaceLine, KeyValueLine, PlainLine, IndentedLine,
     DocumentStartLine}

SplitContents ==
    UNION {[1..n -> SplitLines] : n \in 1..MaxLines}

\* legacy_parser(content, path): the split of _legacy_parser, then load_meta
\* on the metadata text.
LegacyParser(content) ==
    /\ pure = NoPure
    /\ LET split == _legacy_parser(content)
       IN  pure' = [op |-> "legacy_parser", content |-> content,
                    raises |-> split.raises, meta |-> split.meta,
                    body |-> split.content,
                    meta_dict |-> load_meta(split.meta)]
    /\ UNCHANGED <<config, fs, _file_cache, _pages, heap, walk, ret, seen,
                   reader>>

NextSplit ==
    \E content \in SplitContents :
        \/ LibyamlParser(content)
        \/ LegacyParser(content)

SpecSplit == InitParse /\ [][NextSplit]_vars

\* The two parsers on contents with a block scalar: what comes before its
\* header, the lines of the scalar, and what follows.
BlockPrefixes == {<<>>, <<KeyValueLine>>, <<DocumentStartLine>>}

BlockScalars ==
    UNION {[1..n -> {IndentedLine, BlankLine}] : n \in 1..MaxLines}

BlockRests ==
    UNION {[1..n -> {BlankLine, PlainLine, KeyValueLine, DocumentStartLine}] :
              n \in 0..MaxRest}

BlockContents ==
    {prefix \o <<BlockScalarLine>> \o scalar \o rest :
        prefix \in BlockPrefixes, scalar \in BlockScalars,
        rest \in BlockRests}

\* What a parser returns: the two texts and the decoded metadata.
Returned(split) ==
    [raises |-> split.raises, meta |-> split.meta, body |-> split.content,
     meta_dict |-> IF split.raises = "none" THEN load_meta(split.meta)
                   ELSE Decoded(split.raises, EmptyDict)]

\* The same content given to legacy_parser and to libyaml_parser, as the
\* page is read with FLATPAGES_LEGACY_META_PARSER set and unset.
ParseBothWays(content) ==
    /\ pure = NoPure
    /\ pure' = [op |-> "parsers", content |-> content,
                legacy |-> Returned(_legacy_parser(content)),
                libyaml |-> Returned(_libyaml_parser(content))]
    /\ UNCHANGED <<config, fs, _file_cache, _pages, heap, walk, ret, seen,
                   reader>>

NextBlock == \E content \in BlockContents : ParseBothWays(content)

SpecBlock == InitParse /\ [][NextBlock]_vars

\* The tokenizing parser on contents that hold a character the reader
\* rejects.
ControlLines ==
    {BlankLine, KeyValueLine, PlainLine, DocumentStartLine, ControlCharLine}

ControlContents ==
    UNION {[1..n -> ControlLines] : n \in 1..MaxLines}

NextControl == \E content \in ControlContents : LibyamlParser(content)

SpecControl == InitParse /\ [][NextControl]_vars

\* ------------------------------------ load_meta on documents of any type
\* The values safe_load_all yields: None, a str of characters, an int, a
\* list of values or a dict from keys to strs.
PyNone == [type |-> "NoneType", items |-> << >>, dict |-> EmptyDict]
PyStr(chars) == [type |-> "str", items |-> chars, dict |-> EmptyDict]
PyInt(n) == [type |-> "int", items |-> <<n>>, dict |-> EmptyDict]
PyList(items) == [type |-> "list", items |-> items, dict |-> EmptyDict]
PyDict(d) == [type |-> "dict", items |-> << >>, dict |-> d]

\* Lines that are each a document of their own.
OtherValueLine == "a: c"
OtherKeyLine == "b: c"
EmptyMappingLine == "{}"
EmptySequenceLine == "[]"
PairSequenceLine == "- ab"
SequenceLine == "- c"
IntLine == "42"
EmptyStrLine == "''"
NullLine == "~"

DocumentLines ==
    {KeyValueLine, OtherValueLine, OtherKeyLine, EmptyMappingLine,
     EmptySequenceLine, PairSequenceLine, SequenceLine, PlainLine, IntLine,
     EmptyStrLine, NullLine}

\* The document yaml constructs from such a line.
DocumentOf(line) ==
    CASE line = KeyValueLine -> PyDict(Put(EmptyDict, "a", <<"b">>))
      [] line = OtherValueLine -> PyDict(Put(EmptyDict, "a", <<"c">>))
      [] line = OtherKeyLine -> PyDict(Put(EmptyDict, "b", <<"c">>))
      [] line = EmptyMappingLine -> PyDict(EmptyDict)
      [] line = EmptySequenceLine -> PyList(<< >>)
      [] line = PairSequenceLine -> PyList(<<PyStr(<<"a", "b">>)>>)
      [] line = SequenceLine -> PyList(<<PyStr(<<"c">>)>>)
      [] line = PlainLine -> PyStr(<<"c">>)
      [] line = IntLine -> PyInt(42)
      [] line = EmptyStrLine -> PyStr(<< >>)
      [] line = NullLine -> PyNone

\* safe_load_all(StringIO(meta_yaml)) for a text of such lines, "---" lines
\* and blank lines, no two documents on lines that follow each other: the
\* documents in order; a "---" with no document before the next "---" or
\* the end of the text gives None.  open: a "---" was read and no document
\* since.
safe_load_all(meta_yaml) ==
    LET RECURSIVE documents(_, _)
        documents(i, open) ==
            IF i > Len(meta_yaml)
            THEN IF open THEN <<PyNone>> ELSE << >>
            ELSE IF meta_yaml[i] = DocumentStartLine
            THEN (IF open THEN <<PyNone>> ELSE << >>)
                 \o documents(i + 1, TRUE)
            ELSE IF meta_yaml[i] = BlankLine
            THEN documents(i + 1, open)
            ELSE <<DocumentOf(meta_yaml[i])>> \o documents(i + 1, FALSE)
    IN  documents(1, FALSE)

\* What load_meta gives: the exception raised if any, with the text of its
\* message and what the message is formatted with, else the value returned;
\* what dict.update gives: the same, with the dict as it is afterwards.
Meta(raises, message, args, meta) ==
    [raises |-> raises, message |-> message, args |-> args, meta |-> meta]

\* What iterating a value gives to dict.update: the characters of a str,
\* the items of a list.
Elements(value) ==
    IF value.type = "str"
    THEN [i \in 1..Len(value.items) |-> PyStr(<<value.items[i]>>)]
    ELSE value.items

\* meta.update(doc): a dict is merged key by key; of any other value each
\* element must be a sequence of two items, a key and its value.
update(meta, doc) ==
    LET RECURSIVE pairs(_, _, _)
        pairs(elements, i, d) ==
            IF i > Len(elements) THEN Meta("none", "", << >>, d)
            ELSE IF elements[i].type \notin {"str", "list"}
            THEN Meta("TypeError",
                      "cannot convert dictionary update sequence element to a sequence",
                      << >>, EmptyDict)
            ELSE IF Len(elements[i].items) # 2
            THEN Meta("ValueError",
                      "dictionary update sequence element has length; 2 is required",
                      << >>, EmptyDict)
            ELSE pairs(elements, i + 1,
                       Put(d, elements[i].items[1], <<elements[i].items[2]>>))
    IN  IF doc.type = "dict"
        THEN Meta("none", "", << >>, Update(meta, doc.dict))
        ELSE IF doc.type \notin {"str", "list"}
        THEN Meta("TypeError", "object is not iterable", << >>, EmptyDict)
        ELSE pairs(Elements(doc), 1, meta)

\* doc is not None, as it would be if every document were merged.
IsNotNoneAlways(doc) == TRUE

\* doc is not None
IsNotNone(doc) == doc.type # "NoneType"

\* load_meta(meta_yaml, path) on the documents safe_load_all yields: every
\* document that is not None is merged into meta, which starts as {} and is
\* returned; meta is a dict throughout, so the error that names the path and
\* the type is never raised.
LoadMetaDocuments(documents, path) ==
    LET RECURSIVE merge(_, _)
        merge(i, meta) ==
            IF i > Len(documents)
            THEN IF meta.dict = EmptyDict
                 THEN Meta("none", "", << >>, PyDict(EmptyDict))
                 ELSE IF meta.type # "dict"
                 THEN Meta("ValueError",
                           "Expected a dict in metadata for '{0}', got {1}",
                           <<path, meta.type>>, PyNone)
                 ELSE Meta("none", "", << >>, meta)
            ELSE IF ~ IsNotNone(documents[i]) THEN merge(i + 1, meta)
            ELSE LET updated == update(meta.dict, documents[i])
                 IN  IF updated.raises # "none"
                     THEN Meta(updated.raises, updated.message,
                               updated.args, PyNone)
                     ELSE merge(i + 1, PyDict(updated.meta))
    IN  merge(1, PyDict(EmptyDict))

\* self.meta[name] when name is not a key, as it would be with a default.
LookupOrDefault(meta, name) ==
    IF name \in DOMAIN meta THEN [raises |-> "none", value |-> meta[name]]
    ELSE [raises |-> "none", value |-> << >>]

\* self.meta[name]
Lookup(meta, name) ==
    IF name \in DOMAIN meta THEN [raises |-> "none", value |-> meta[name]]
    ELSE [raises |-> "KeyError", value |-> << >>]

\* The metadata texts: one document a line with "---" lines between, before
\* or after them, and the empty text.
MetaTexts ==
    {<<BlankLine>>} \cup
    {text \in UNION {[1..n -> DocumentLines \cup {DocumentStartLine}] :
                        n \in 1..MaxLines} :
        \A i \in 1..(Len(text) - 1) :
            text[i] = DocumentStartLine \/ text[i + 1] = DocumentStartLine}

MetaKeys == {"a", "b", "c"}

\* page.meta for a page of the path whose metadata text is meta_yaml.
LoadMeta(meta_yaml, path) ==
    /\ pure = NoPure
    /\ pure' = [op |-> "load_meta", meta_yaml |-> meta_yaml, path |-> path,
                documents |-> safe_load_all(meta_yaml),
                result |-> LoadMetaDocuments(safe_load_all(meta_yaml), path)]
    /\ UNCHANGED <<config, fs, _file_cache, _pages, heap, walk, ret, seen,
                   reader>>

\* Page.__getitem__(name) given what self.meta gives: self.meta[name]; an
\* exception of the decoding goes through it.
__getitem__(meta, name) ==
    IF meta.raises # "none" THEN [raises |-> meta.raises, value |-> << >>]
    ELSE Lookup(meta.meta.dict, name)

\* page[name] for a page of the path whose metadata text is meta_yaml.
GetItem(meta_yaml, path, name) ==
    /\ pure = NoPure
    /\ pure' = [op |-> "__getitem__", meta_yaml |-> meta_yaml,
                path |-> path, name |-> name,
                meta |-> LoadMetaDocuments(safe_load_all(meta_yaml), path),
                item |-> __getitem__(
                             LoadMetaDocuments(safe_load_all(meta_yaml),
                                               path), name)]
    /\ UNCHANGED <<config, fs, _file_cache, _pages, heap, walk, ret, seen,
                   reader>>

NextMeta ==
    \E meta_yaml \in MetaTexts, path \in Paths :
        \/ LoadMeta(meta_yaml, path)
        \/ \E name \in MetaKeys : GetItem(meta_yaml, path, name)

SpecMeta == InitParse /\ [][NextMeta]_vars

\* ------------------------------------------- the forms of the extension
\* The extension strings written in the configuration, in the order written,
\* and the names of the files of the root directory.
ExtTH == <<".", "t", ".", "h">>

ExtItems ==
    {items \in UNION {[1..n -> {ExtH, ExtT, ExtTH}] : n \in 1..2} :
        \A i, j \in 1..Len(items) : i # j => items[i] # items[j]}

\* The forms FLATPAGES_EXTENSION takes for the same strings.
ExtForms(items) ==
    {ExtStr(Join(items, ",")), ExtList(items), ExtTuple(items),
     ExtSet({items[i] : i \in 1..Len(items)})}

ExtNames ==
    {<<"a", ".", "h">>, <<"a", ".", "t">>, <<"a", ".", "t", ".", "h">>,
     <<"b", ".", "h">>}

\* The loop of _pages over what _walker yields for the files, without the
\* loading: the mapping from the paths to the files, or ValueError when
\* two files give one path.
WalkedKeys(cfg, files, extension) ==
    LET eligible == {f \in files : NameEndsWith(f.name, extension)}
        paths == {LogicalPath(cfg, extension, f) : f \in eligible}
    IN  IF \E f, g \in eligible :
               /\ f # g
               /\ LogicalPath(cfg, extension, f)
                      = LogicalPath(cfg, extension, g)
        THEN [raises |-> "ValueError", pages |-> EmptyDict]
        ELSE [raises |-> "none",
              pages |-> [path \in paths |->
                            CHOOSE f \in eligible :
                                LogicalPath(cfg, extension, f) = path]]

\* _pages with the extension given in one form: it is made a tuple, then
\* the names are tested against the tuple.
WalkWithExtension(items, extension, normalized, names) ==
    /\ pure = NoPure
    /\ normalized \in NormalizedExtension(extension)
    /\ pure' = [op |-> "_pages", items |-> items, extension |-> extension,
                normalized |-> normalized, names |-> names,
                pages |-> WalkedKeys(config,
                                     {File(<<>>, name) : name \in names},
                                     normalized)]
    /\ UNCHANGED <<config, fs, _file_cache, _pages, heap, walk, ret, seen,
                   reader>>

NextExtension ==
    \E items \in ExtItems, names \in SUBSET ExtNames :
        \E extension \in ExtForms(items) :
            \E normalized \in Orderings({items[i] : i \in 1..Len(items)}) :
                WalkWithExtension(items, extension, normalized, names)

SpecExtension == InitParse /\ [][NextExtension]_vars

\* ------------------------------------------------- the delimited-block parser
Delimiter == "+++"

AssignALine == "a = 1"

TomlCommentLine == "# c"

DashLine == "---"

TomlLines == {Delimiter, "", AssignALine, TomlCommentLine, DashLine}

TomlContents == UNION {[1..n -> TomlLines] : n \in 1..MaxLines}

\* [line for line in lines if line != "+++"], for any line
RECURSIVE Without(_, _)
Without(lines, line) ==
    IF lines = <<>> THEN <<>>
    ELSE IF Head(lines) = line THEN Without(Tail(lines), line)
         ELSE <<Head(lines)>> \o Without(Tail(lines), line)

\* end_idx as it would be if the first delimiter line ended the block.
end_idxAtFirst(lines) ==
    LET at == {i \in 1..Len(lines) : lines[i] = Delimiter}
    IN  IF at = {} THEN 0 ELSE CHOOSE i \in at : \A j \in at : i <= j

\* The value of end_idx when the loop of toml_parser ends: the number of the
\* second line that is the delimiter, 0 when there is none.
end_idx(lines) ==
    LET at == {i \in 1..Len(lines) : lines[i] = Delimiter}
        second == {i \in at : Cardinality({j \in at : j < i}) = 1}
    IN  IF second = {} THEN 0 ELSE CHOOSE i \in second : TRUE

\* _toml.loads(toml_str) over the lines of the model: an assignment sets its
\* key, a key set twice and a line that is no TOML raise.
loads(lines) ==
    LET assigned == {i \in 1..Len(lines) : lines[i] = AssignALine}
    IN  IF \/ \E i \in 1..Len(lines) : lines[i] = DashLine
           \/ Cardinality(assigned) > 1
        THEN [raises |-> "TOMLDecodeError", meta |-> EmptyDict]
        ELSE [raises |-> "none",
              meta |-> [key \in {"a" : i \in assigned} |-> 1]]

\* toml_parser(content, path)
toml_parser(content) ==
    LET toml_str == JoinLines(Without(SubSeq(content, 1, end_idx(content)),
                                      Delimiter))
        text == LStripNewlines(JoinLines(Without(SubSeq(content, end_idx(content) + 1,
                                                Len(content)), Delimiter)))
    IN  [end_idx |-> end_idx(content), toml_str |-> toml_str,
         raises |-> loads(toml_str).raises, meta |-> loads(toml_str).meta,
         text |-> IF loads(toml_str).raises = "none" THEN text ELSE <<"">>]

TomlParser(content) ==
    /\ pure = NoPure
    /\ pure' = [op |-> "toml_parser", content |-> content,
                parsed |-> toml_parser(content)]
    /\ UNCHANGED <<config, fs, _file_cache, _pages, heap, walk, ret, seen,
                   reader>>

NextToml == \E content \in TomlContents : TomlParser(content)

SpecToml == InitParse /\ [][NextToml]_vars

\* --------------------------------------------- FLATPAGES_CASE_INSENSITIVE
\* Files whose names hold upper-case letters, and the paths asked for.
CaseFiles ==
    {File(<<>>, <<"A", ".", "h">>), File(<<>>, <<"a", ".", "h">>),
     File(<<>>, <<"b", ".", "h">>), File(<< <<"D">> >>, <<"B", ".", "h">>),
     File(<< <<"d">> >>, <<"b", ".", "h">>)}

CasePaths == {<<"a">>, <<"A">>, <<"b">>, <<"d", "/", "b">>, <<"D", "/", "B">>}

\* get(path) on a table that is built from the files by this call.
WalkAndGet(files, case_insensitive, path) ==
    /\ pure = NoPure
    /\ LET cfg == Config(ExtStr(ExtH), case_insensitive, FALSE, 2)
       IN  pure' = [op |-> "get", files |-> files,
                    case_insensitive |-> case_insensitive, path |-> path,
                    walked |-> WalkedKeys(cfg, files, <<ExtH>>),
                    got |-> get(WalkedKeys(cfg, files, <<ExtH>>).pages,
                                path, "None")]
    /\ UNCHANGED <<config, fs, _file_cache, _pages, heap, walk, ret, seen,
                   reader>>

NextCase ==
    \E files \in SUBSET CaseFiles, case_insensitive \in BOOLEAN,
       path \in CasePaths : WalkAndGet(files, case_insensitive, path)

SpecCase == InitParse /\ [][NextCase]_vars

\* ------------------------------------------------- the walker's paths alone
\* Roots, directories below the root, file names and extension tuples.
PathRoots == {Root}
Segments == {<<"d">>, <<"r">>}
PathDirs == UNION {[1..n -> Segments] : n \in 0..MaxDepth}
PathNames ==
    {<<"a", ".", "h">>, <<"a", ".", "t">>, <<"b", ".", "h">>, <<"a">>}
PathExtensions ==
    {<<ExtH>>, <<ExtH, ExtT>>, <<ExtT, ExtH>>, << <<>> >>, <<ExtH, <<>> >>}

InitPath ==
    /\ config = Config(ExtStr(ExtH), FALSE, FALSE, 2)
    /\ fs = [f \in Files |-> NoFile]
    /\ _file_cache = EmptyDict
    /\ _pages = NoSnapshot
    /\ heap = <<>>
    /\ walk = NoWalk
    /\ ret = NoOutcome
    /\ seen = NoSeen
    /\ pure = NoPure
    /\ reader = NoReader

\* _walker yields the path of one file name of one directory.
Walker(root, dir, name, extension) ==
    /\ NameEndsWith(name, extension)
    /\ pure' = [op |-> "_walker", root |-> root, dir |-> dir, name |-> name,
                extension |-> extension,
                path |-> WalkerPath(root, CurPath(root, dir), name,
                                    extension, FALSE)]
    /\ UNCHANGED <<config, fs, _file_cache, _pages, heap, walk, ret, seen,
                   reader>>

NextPath ==
    \E root \in PathRoots, dir \in PathDirs, name \in PathNames,
       extension \in PathExtensions : Walker(root, dir, name, extension)

SpecPath == InitPath /\ [][NextPath]_vars

\* ------------------------------------------------ two files, one extension
\* The files of the trees walked and the single extensions accepted.
PathFiles == {File(dir, name) : dir \in PathDirs, name \in PathNames}

SingleExtensions == {<<ExtH>>, << <<>> >>}

\* _pages over a tree that holds two files, one extension being accepted.
WalkTwo(f, g, extension) ==
    /\ pure = NoPure
    /\ f # g
    /\ pure' = [op |-> "_pages", files |-> {f, g}, extension |-> extension,
                walked |-> WalkedKeys(config, {f, g}, extension)]
    /\ UNCHANGED <<config, fs, _file_cache, _pages, heap, walk, ret, seen,
                   reader>>

NextDistinct ==
    \E f, g \in PathFiles, extension \in SingleExtensions :
        WalkTwo(f, g, extension)

SpecDistinct == InitParse /\ [][NextDistinct]_vars

\* ------------------------------------------------------------ properties
\* The call that has just ended was answered out of a snapshot: it returned,
\* or get_or_404 found no page.
Answered == ret # NoOutcome /\ ret.raised \in {"none", "NotFound"}

\* The call that has just ended failed while building the snapshot.
Failed == ret # NoOutcome /\ ret.raised \notin {"none", "NotFound"}

\* The tuples of extensions the configuration stands for.
Extensions == NormalizedExtension(config.extension)

\* The files under the root now whose names end with an accepted extension.
EligibleNow(extension) ==
    {f \in Files : /\ fs[f].exists
                   /\ \E i \in 1..Len(extension) :
                        EndsWith(f.name, extension[i])}

\* Body and metadata of page id are those parsed from what file f holds now.
ParsedFromNow(id, f) ==
    LET parsed == _parse(config, fs[f].content, heap[id].path)
    IN  /\ parsed.raises = "none"
        /\ heap[id].body = parsed.page.body
        /\ heap[id].meta = parsed.page.meta

\* The page returned is parsed from what its file holds now.
ReturnedParsedFromNow == ParsedFromNow(ret.page, ret.load.file)

\* C1: between two reloads, once the snapshot is built, every get for a path
\* returns the page the first get for that path returned (or, like it, the
\* default), whatever was written to or removed from the directory since.
C1_GetIsStableBetweenReloads ==
    (ret.op = "get" /\ seen.set /\ seen.path = ret.path) =>
        /\ ret.page = seen.page
        /\ (ret.page = 0 => ret.value = ret.default)

\* A later get, told from the first by its default, returns the page of a
\* file that has been removed since the snapshot was built.
C1_Witness ==
    /\ ret.op = "get"
    /\ ret.walked = "no"
    /\ seen.set
    /\ seen.default # ret.default
    /\ ret.page > 0
    /\ ret.page = seen.page
    /\ ~ fs[FileAH].exists

\* C2: a walk that finds a cache entry for a file returns the cached Page
\* object if and only if the file's mtime equals the mtime of the entry; on
\* a hit the file is not read, whatever it holds.
C2_CachedPageIffSameMtime ==
    (ret.walked = "alone" /\ ret.load.set /\ ret.load.cached # <<0, 0>>) =>
        /\ (ret.page = ret.load.cached[1])
              <=> (fs[ret.load.file].mtime = ret.load.cached[2])
        /\ (ret.page = ret.load.cached[1]) <=> ret.load.hit
        /\ ret.load.hit => ret.load.content = <<>>

\* The cached page is returned for a file whose content changed while its
\* mtime did not: the page's body is not the body of the file.
C2_Witness ==
    /\ ret.op = "get"
    /\ ret.walked = "alone"
    /\ ret.load.set
    /\ ret.load.hit
    /\ ret.page = ret.load.cached[1]
    /\ fs[ret.load.file].content = MetaText
    /\ heap[ret.page].body # <<PlainLine>>

\* C3: when the mtime of a file differs from the one of its cache entry, the
\* get that walks returns a Page object other than the cached one, whose body
\* and metadata are parsed from what the file holds at the walk.
C3_ChangedFileGivesNewPage ==
    (/\ ret.op = "get"
     /\ ret.walked = "alone"
     /\ ret.load.set
     /\ ret.load.cached # <<0, 0>>
     /\ fs[ret.load.file].mtime # ret.load.cached[2]) =>
        /\ ret.page > 0
        /\ ret.page # ret.load.cached[1]
        /\ ReturnedParsedFromNow

\* The new page differs in body from the page cached before.
C3_Witness ==
    /\ ret.op = "get"
    /\ ret.walked = "alone"
    /\ ret.load.set
    /\ ret.load.cached # <<0, 0>>
    /\ ~ ret.load.hit
    /\ heap[ret.page].body # heap[ret.load.cached[1]].body
    /\ heap[ret.page].meta # heap[ret.load.cached[1]].meta

\* C4: a walk starts only when no call has been answered since construction
\* or the last reload, and a call is answered without a walk only after
\* one; files are read (pages made, cache entries written) only during a
\* walk; the snapshot does not change between answered calls; and the walk
\* takes in every eligible file, the page returned being parsed from what
\* its file held.
C4_WalkOnlyAtFirstAccess ==
    [][/\ (walk'.active /\ ~ walk.active) => ~ seen.accessed
       /\ (ret = NoOutcome /\ Answered' /\ ret'.walked = "no")
             => seen.accessed
       /\ (Len(heap') # Len(heap) \/ _file_cache' # _file_cache)
             => walk.active
       /\ (seen.accessed /\ seen'.accessed) => _pages' = _pages
       /\ (ret = NoOutcome /\ Answered' /\ ret'.walked = "alone") =>
             /\ \A extension \in Extensions :
                  \A f \in EligibleNow(extension) :
                     LogicalPath(config, extension, f)
                        \in DOMAIN _pages'.pages
             /\ (ret'.load.set /\ ~ ret'.load.hit) =>
                   LET parsed == _parse(config, fs'[ret'.load.file].content,
                                        ret'.path)
                   IN  /\ parsed.raises = "none"
                       /\ heap'[ret'.page].body = parsed.page.body
                       /\ heap'[ret'.page].meta = parsed.page.meta
      ]_vars

\* A get answered without a walk returns the page built at the first access
\* although its file has been rewritten, with another mtime, since.
C4_Witness ==
    /\ ret.op = "get"
    /\ ret.walked = "no"
    /\ ret.page > 0
    /\ fs[FileAH].exists
    /\ fs[FileAH].content = MetaText
    /\ heap[ret.page].body # <<PlainLine>>
    /\ fs[FileAH].mtime # _file_cache[FullName(config.root, FileAH)][2]

\* Two files that exist now and are eligible have the same logical path.
Colliding(extension) ==
    \E f, g \in EligibleNow(extension) :
        /\ f # g
        /\ LogicalPath(config, extension, f) = LogicalPath(config, extension, g)

\* Every eligible file that exists now parses.
AllParse(extension) ==
    \A f \in EligibleNow(extension) :
        _parse(config, fs[f].content, <<>>).raises = "none"

\* C5: a walk over a directory in which two eligible files have the same
\* logical path ends with an exception and leaves no snapshot, so that no
\* caller is answered; the exception is ValueError (when no file fails to
\* parse before the collision is met).
C5_CollisionRaises ==
    \A extension \in Extensions :
        (ret.walked = "alone" /\ Colliding(extension)) =>
            /\ Failed
            /\ ~ _pages.built
            /\ AllParse(extension) => ret.raised = "ValueError"

\* The walk met a.h and a.t with both extensions accepted.
C5_Witness ==
    /\ ret.raised = "ValueError"
    /\ ret.walked = "alone"
    /\ config.extension = ExtList(<<ExtH, ExtT>>)
    /\ fs[FileAH].exists
    /\ fs[FileAT].exists
    /\ heap # <<>>

\* C6: a call that ends with an exception out of the walk leaves no snapshot
\* and no walk behind; with no snapshot a call is never answered without a
\* walk; and a walk starts from the root with an empty mapping.
C6_FailedWalkInstallsNothing ==
    [][/\ Failed' => (~ _pages'.built /\ ~ walk'.active)
       /\ (Failed' /\ ret = NoOutcome) => (_pages' = _pages)
       /\ (ret = NoOutcome /\ Answered' /\ ~ _pages.built)
             => ret'.walked # "no"
       /\ (walk'.active /\ ~ walk.active) =>
             /\ walk'.pages = EmptyDict
             /\ walk'.loaded = EmptyDict
             /\ walk'.dirs = << <<>> >>
             /\ walk'.names = {}
      ]_vars

\* A file vanished between the listing of its directory and its stat or
\* open, after another file had been loaded.
C6_Witness ==
    /\ ret.raised = "FileNotFoundError"
    /\ ret.walked = "raced"
    /\ _file_cache # EmptyDict
    /\ ~ _pages.built

\* C7: after a walk that succeeds, the keys of the snapshot, and the paths
\* of the pages an iteration yields, are the logical paths of the files that
\* exist under the root with an accepted extension; get gives the default
\* for any other path.
C7_KeysAreEligibleFiles ==
    (ret.walked = "alone" /\ Answered) =>
        /\ _pages.built
        /\ \A extension \in Extensions :
             LET paths == {LogicalPath(config, extension, f) :
                              f \in EligibleNow(extension)}
             IN  /\ DOMAIN _pages.pages = paths
                 /\ ret.op = "iter" =>
                       {heap[id].path : id \in ret.pages} = paths
                 /\ (ret.op = "get" /\ ret.path \notin paths) => ret.page = 0
                 /\ (ret.op = "get" /\ ret.path \in paths) => ret.page > 0

\* An iteration walks a directory where a.h was removed, a.t is there but
\* of no accepted extension, and d/b.h is in a subdirectory.
C7_Witness ==
    /\ ret.op = "iter"
    /\ ret.walked = "alone"
    /\ config.extension = ExtStr(ExtH)
    /\ ~ fs[FileAH].exists
    /\ fs[FileAT].exists
    /\ {heap[id].path : id \in ret.pages} = {<<"d", "/", "b">>}

\* The path named by the directory segments and the name without the
\* extension it ends with (the first such of the tuple), joined with "/".
ExpectedPath(dir, name, extension) ==
    LET i == CHOOSE k \in 1..Len(extension) :
                 /\ EndsWith(name, extension[k])
                 /\ \A j \in 1..(k - 1) : ~ EndsWith(name, extension[j])
        stem == SubSeq(name, 1, Len(name) - Len(extension[i]))
    IN  Join(dir \o <<stem>>, "/")

\* C8: the path the walker yields for an eligible file is the directory
\* segments below the root, then the name without its extension, joined
\* with "/".
C8_PathIsSegmentsAndStem ==
    pure.op = "_walker" =>
        pure.path = ExpectedPath(pure.dir, pure.name, pure.extension)

\* C9: get for a path not in the snapshot returns the default it was given
\* and get_or_404 raises NotFound; for a path in the snapshot both return
\* the page the snapshot holds.
C9_MissIsDefaultOrNotFound ==
    /\ ret.op = "get" =>
          /\ ret.raised = "none"
          /\ IF ret.path \in DOMAIN _pages.pages
             THEN ret.page = _pages.pages[ret.path] /\ ret.value = "Page"
             ELSE ret.page = 0 /\ ret.value = ret.default
    /\ ret.op = "get_or_404" =>
          IF ret.path \in DOMAIN _pages.pages
          THEN /\ ret.raised = "none"
               /\ ret.page = _pages.pages[ret.path]
               /\ ret.value = "Page"
          ELSE ret.raised = "NotFound" /\ ret.page = 0

\* get("a", 42) returns 42 when the snapshot has no page "a".
C9_Witness ==
    /\ ret.op = "get"
    /\ ret.default = "42"
    /\ ret.path \notin DOMAIN _pages.pages
    /\ ret.value = "42"
    /\ ret.page = 0

\* C10: no step changes the path, body or metadata of a Page object, removes
\* one, or changes an html that has been cached; and reading html of a page
\* whose html is cached does not call the renderer.
C10_PagesNeverChange ==
    [][/\ Len(heap') >= Len(heap)
       /\ \A id \in 1..Len(heap) :
             /\ heap'[id].path = heap[id].path
             /\ heap'[id].body = heap[id].body
             /\ heap'[id].meta = heap[id].meta
             /\ heap[id].html.set => heap'[id].html = heap[id].html
       /\ (pure'.op = "html" /\ pure' # pure) =>
             (heap[pure'.page].html.set => ~ pure'.called)
      ]_vars

\* The html of a rendered page is read again, from the cache, while the
\* snapshot holds a newer page of another body for the same path.
C10_Witness ==
    /\ pure.op = "html"
    /\ ~ pure.called
    /\ \E id \in 1..Len(heap) :
          /\ id # pure.page
          /\ heap[id].html.set
          /\ heap[id].path = heap[pure.page].path
          /\ heap[id].body # heap[pure.page].body
          /\ id \notin Values(_pages.pages)

\* C11: a step of reload changes nothing but the snapshot, which it
\* forgets: files, file cache and Page objects stay, no exception is raised;
\* and with no snapshot built reload changes nothing at all, so that a
\* second reload in a row is no step.
C11_ReloadOnlyForgets ==
    [][Reload =>
          /\ _pages.built
          /\ ~ _pages'.built
          /\ fs' = fs
          /\ _file_cache' = _file_cache
          /\ heap' = heap
          /\ walk' = walk
          /\ ret' = NoOutcome
      ]_vars

\* The snapshot is forgotten while the cache holds the pages of both files
\* (with one extension no walk that fails leaves both entries behind).
C11_Witness ==
    /\ Idle
    /\ ~ _pages.built
    /\ config.extension = ExtStr(ExtH)
    /\ FullName(config.root, FileAH) \in DOMAIN _file_cache
    /\ FullName(config.root, FileDBH) \in DOMAIN _file_cache
    /\ fs[FileAH].exists

\* C12: whatever the configuration has become, a file whose cache entry
\* carries the mtime now read gives the cached Page, in the walk and in what
\* get returns; a file with no cache entry, as every file is once the file
\* cache has been emptied, is parsed into a Page of the configuration in force.
C12_CachedPagesOutliveTheConfiguration ==
    /\ walk.active =>
          \A path \in DOMAIN walk.loaded :
             LET l == walk.loaded[path]
             IN  /\ (l.cached # <<0, 0>> /\ l.cached[2] = l.mtime) =>
                       (l.hit /\ walk.pages[path] = l.cached[1])
                 /\ l.cached = <<0, 0>> =>
                       /\ ~ l.hit
                       /\ walk.pages[path] = l.page
                       /\ heap[l.page].html_renderer = config.renderer_args
                       /\ heap[l.page].meta =
                             _parse(config, l.content, path).page.meta
                       /\ heap[l.page].body =
                             _parse(config, l.content, path).page.body
    /\ (Answered /\ ret.load.set) =>
          /\ (ret.load.cached # <<0, 0>> /\ ret.load.cached[2] = ret.load.mtime)
                => ret.page = ret.load.cached[1]
          /\ ret.load.cached = <<0, 0>> =>
                heap[ret.page].html_renderer = config.renderer_args

\* get returns a cached Page made for another renderer than the one now
\* configured; and the file nobody ever writes, parsed at first for one
\* renderer, was parsed again for the other once the file cache was emptied.
C12_Witness ==
    /\ Answered
    /\ ret.load.set
    /\ ret.load.hit
    /\ heap[ret.page].html_renderer # config.renderer_args
    /\ \E old \in 1..Len(heap), new \in 1..Len(heap) :
          /\ old < new
          /\ heap[old].path # ret.path
          /\ heap[new].path = heap[old].path
          /\ heap[new].html_renderer # heap[old].html_renderer

\* C13: a step that takes a file name out of the file cache is the caller
\* emptying it, which leaves it empty; no get, iteration or reload does so.
C13_OnlyEmptyRemovesEntries ==
    [][(\E filename \in DOMAIN _file_cache :
           filename \notin DOMAIN _file_cache')
         => (Empty /\ _file_cache' = EmptyDict)
      ]_vars

\* The file is gone and the snapshot rebuilt after a reload has no page for
\* it, yet the file cache still holds its entry.
C13_Witness ==
    /\ config.extension = ExtStr(ExtH)
    /\ ~ fs[FileAH].exists
    /\ _pages.built
    /\ <<"a">> \notin DOMAIN _pages.pages
    /\ FullName(config.root, FileAH) \in DOMAIN _file_cache

\* The policy of C14 in its own words: the setting is true and is not the
\* string 'if debug', or it is 'if debug' and the debug flag is set.
AutoReloadOn ==
    \/ Truthy(config.auto_reload) /\ config.auto_reload # Str("if debug")
    \/ config.auto_reload = Str("if debug") /\ config.debug

\* C14: the before-request hook reloads exactly when the policy is on, and
\* otherwise leaves the snapshot alone; so a get after a request, when get
\* had answered the same path before it, gives with the policy off the very
\* same Page without a walk, and with the policy on walks and, the file's
\* mtime differing from the cached one, gives a new Page of the content read,
\* which is the file's content if nobody wrote meanwhile.
C14_HookReloadsByPolicy ==
    /\ [][BeforeRequest =>
             /\ pure'.reloaded = AutoReloadOn
             /\ IF AutoReloadOn
                THEN ~ _pages'.built /\ seen' = NoSeen
                ELSE _pages' = _pages /\ seen' = seen
         ]_vars
    /\ []((/\ Answered
           /\ ret.op = "get"
           /\ pure.op = "before_request"
           /\ pure.set
           /\ pure.path = ret.path) =>
             IF AutoReloadOn
             THEN /\ ret.walked # "no"
                  /\ (ret.load.set /\ ret.load.cached[2] # ret.load.mtime) =>
                        /\ ret.page > 0
                        /\ ret.page # pure.page
                        /\ heap[ret.page].body =
                              _parse(config, ret.load.content, ret.path).page.body
                        /\ ret.walked = "alone" =>
                              ret.load.content = fs[ret.load.file].content
             ELSE /\ ret.walked = "no"
                  /\ ret.page = pure.page)

\* With 'if debug' and the debug flag set, get had given a Page, the file
\* was rewritten, a request came, and get now gives another Page with
\* another body, the one of the file.
C14_Witness ==
    /\ Answered
    /\ ret.op = "get"
    /\ pure.op = "before_request"
    /\ pure.set
    /\ pure.page > 0
    /\ config.auto_reload = Str("if debug")
    /\ config.debug
    /\ ret.walked = "alone"
    /\ ret.page > 0
    /\ ret.page # pure.page
    /\ heap[ret.page].body # heap[pure.page].body
    /\ heap[ret.page].body =
          _parse(config, fs[FileAH].content, ret.path).page.body

\* C15: while a reader holds a dict it sees the same pages in it at every
\* step, whatever get, iteration, reload or a rebuild do; and as long as its
\* dict is the installed one, this is the snapshot the table answers from.
C15_ReaderKeepsItsSnapshot ==
    /\ [][(reader.active /\ reader'.active) => reader'.pages = reader.pages]_vars
    /\ []((reader.active /\ reader.installed) =>
             (_pages.built /\ _pages.pages = reader.pages))

\* A reader started on a snapshot with the page of a file; the table was
\* reloaded and rebuilt without the file, and the reader still has the page.
C15_Witness ==
    /\ reader.active
    /\ ~ reader.installed
    /\ <<"a">> \in DOMAIN reader.pages
    /\ _pages.built
    /\ <<"a">> \notin DOMAIN _pages.pages
    /\ seen.accessed

Parsed == pure.op = "libyaml_parser"

\* The first line from line i on that is not blank (0 for none), and that
\* is neither blank nor a comment.
FirstNonBlank(content, i) ==
    LET rest == {j \in i..Len(content) : content[j] # BlankLine}
    IN  IF rest = {} THEN 0 ELSE CHOOSE j \in rest : \A k \in rest : j <= k

FirstText(content, i) ==
    LET rest == {j \in i..Len(content) :
                    content[j] \notin {BlankLine, CommentLine}}
    IN  IF rest = {} THEN 0 ELSE CHOOSE j \in rest : \A k \in rest : j <= k

\* The lines from line i on without the leading blank ones, as a text.
TextFrom(content, i) ==
    IF FirstNonBlank(content, i) = 0 THEN <<"">>
    ELSE SubSeq(content, FirstNonBlank(content, i), Len(content))

\* The number of "key: value" lines the content starts with.
LeadingEntries(content) ==
    LET all == {n \in 0..Len(content) :
                   \A i \in 1..n : content[i] = KeyValueLine}
    IN  CHOOSE n \in all : \A m \in all : m <= n

\* The dict of one entry whose value is the scalar of one line.
OneEntry == [k \in {KeyOf(KeyValueLine)} |-> <<KeyValueLine>>]

\* C17: a content of "key: value" lines, one blank line and a body whose
\* first line of text is plain text at the margin is split at the blank
\* line: the metadata is the lines before it and decodes to their mapping,
\* the body is the text after it.
C17_SplitAtTheBlankLine ==
    Parsed =>
      LET content == pure.content
          n == LeadingEntries(content)
      IN  (/\ n >= 1
           /\ Len(content) >= n + 2
           /\ content[n + 1] = BlankLine
           /\ content[n + 2] # BlankLine
           /\ FirstText(content, n + 2) # 0
           /\ content[FirstText(content, n + 2)] = PlainLine) =>
            /\ pure.raises = "none"
            /\ pure.meta = SubSeq(content, 1, n)
            /\ pure.body = SubSeq(content, n + 2, Len(content))
            /\ pure.meta_dict = Decoded("none", OneEntry)

\* 'a: b', a blank line, 'c', 'c' gives the metadata 'a: b' and the body of
\* the two last lines.
C17_Witness ==
    /\ Parsed
    /\ pure.content = <<KeyValueLine, BlankLine, PlainLine, PlainLine>>
    /\ pure.meta = <<KeyValueLine>>
    /\ pure.body = <<PlainLine, PlainLine>>
    /\ pure.meta_dict.meta = OneEntry

\* C18: the first token is none of the start tokens exactly when the
\* first line that is neither blank nor a comment is plain text or '...',
\* or there is no such line; then the metadata is the empty text, which
\* decodes to {}, and the body is the content without its leading newlines.
C18_NoStartTokenNoMetadata ==
    Parsed =>
      LET content == pure.content
          first == FirstText(content, 1)
          plain == \/ first = 0
                   \/ content[first] \in
                        {PlainLine, IndentedLine, DocumentEndLine}
      IN  /\ plain <=> get_token(Scan(content), 1).type \notin START_TOKENS
          /\ plain =>
                /\ pure.raises = "none"
                /\ pure.meta = <<"">>
                /\ pure.meta_dict = Decoded("none", EmptyDict)
                /\ pure.body = TextFrom(content, 1)

\* A blank line, then plain text, then a line that looks like metadata:
\* no metadata, and the body starts at the plain text.
C18_Witness ==
    /\ Parsed
    /\ pure.content = <<BlankLine, PlainLine, BlankLine, KeyValueLine>>
    /\ pure.meta = <<"">>
    /\ pure.meta_dict.meta = EmptyDict
    /\ pure.body = <<PlainLine, BlankLine, KeyValueLine>>

\* The document markers.
Markers == {DocumentStartLine, DocumentEndLine}

\* The tokens after the first one that are document boundaries, by their
\* place in the stream the scanner delivers.
Boundaries(content) ==
    {k \in 2..Len(Scan(content).tokens) :
        Scan(content).tokens[k].type \in {"DocumentStart", "DocumentEnd"}}

\* C19: when the content opens with a start token and the scanner delivers a
\* document start or end token after it, the metadata is the content
\* through the line of the first such token, which is the first marker line
\* after the opening line, and the body is the text after that line; so a
\* '---' on the first line is no boundary, and when the line after it is a
\* marker the metadata is these two lines and decodes to {}.
C19_SplitAtTheBoundaryMarker ==
    Parsed =>
      LET content == pure.content
          scan == Scan(content)
          open == get_token(scan, 1)
      IN  (open.type \in START_TOKENS /\ Boundaries(content) # {}) =>
            LET first == CHOOSE k \in Boundaries(content) :
                            \A j \in Boundaries(content) : k <= j
                line == scan.tokens[first].start_line + 1
            IN  /\ pure.raises = "none"
                /\ line > open.start_line + 1
                /\ content[line] \in Markers
                /\ \A i \in (open.start_line + 2)..(line - 1) :
                      content[i] \notin Markers
                /\ pure.meta = SubSeq(content, 1, line)
                /\ pure.body = TextFrom(content, line + 1)
                /\ (content[1] = DocumentStartLine /\ line = 2) =>
                      pure.meta_dict = Decoded("none", EmptyDict)

\* '---', 'a: b', '...' and a body: the metadata is the three first lines
\* and holds the entry.
C19_Witness ==
    /\ Parsed
    /\ pure.content =
          <<DocumentStartLine, KeyValueLine, DocumentEndLine, PlainLine>>
    /\ pure.meta = <<DocumentStartLine, KeyValueLine, DocumentEndLine>>
    /\ pure.body = <<PlainLine>>
    /\ pure.meta_dict = Decoded("none", OneEntry)

\* The delivered tokens that are plain scalars with a newline in the value.
NewlineTokens(content) ==
    {k \in 1..Len(Scan(content).tokens) :
        /\ Scan(content).tokens[k].type = "Scalar"
        /\ Scan(content).tokens[k].multiline}

\* The first blank line at or after the line where the first of these
\* tokens starts (0 for none).
BlankLineOfFallback(content, newlines) ==
    LET first == CHOOSE k \in newlines : \A j \in newlines : k <= j
        from == Scan(content).tokens[first].start_line + 1
        blanks == {i \in from..Len(content) : content[i] = BlankLine}
    IN  IF blanks = {} THEN 0
        ELSE CHOOSE i \in blanks : \A j \in blanks : i <= j

\* The content opens with a start token and no boundary token is delivered
\* after it: the scanner raises or comes to the end of the stream.
NoBoundary(content) ==
    /\ get_token(Scan(content), 1).type \in START_TOKENS
    /\ Boundaries(content) = {}

\* C20: with no boundary token found, whether the scanner raised
\* or came to the end, and a scalar with a newline in its value among the
\* tokens, the metadata is the lines before the first blank line at or after
\* the start of the first such scalar, and the body the text from there on.
C20_SplitAtTheFirstBlankLine ==
    (/\ Parsed
     /\ NoBoundary(pure.content)
     /\ NewlineTokens(pure.content) # {}) =>
       LET blank == BlankLineOfFallback(pure.content,
                                        NewlineTokens(pure.content))
       IN  /\ pure.raises = "none"
           /\ blank > 0
           /\ pure.meta = JoinLines(SubSeq(pure.content, 1, blank - 1))
           /\ pure.body = TextFrom(pure.content, blank)

\* C21: the stream is exhausted with no boundary token after the opening
\* one, and no scalar with a newline in its value was delivered or no empty
\* line lies at or after the start of the first of them: the whole content
\* is the metadata and the body is the empty text.
C21_WholeContentIsMetadata ==
    (/\ Parsed
     /\ NoBoundary(pure.content)
     /\ ~ Scan(pure.content).raises
     /\ \/ NewlineTokens(pure.content) = {}
        \/ BlankLineOfFallback(pure.content,
                               NewlineTokens(pure.content)) = 0) =>
       /\ pure.raises = "none"
       /\ pure.meta = pure.content
       /\ pure.body = <<"">>

\* The text begins with a newline character.
BeginsWithNewline(text) == Len(text) > 1 /\ text[1] = ""

\* The texts the content ends with, the empty text among them.
Suffixes(content) ==
    {JoinLines(SubSeq(content, k, Len(content))) : k \in 1..(Len(content) + 1)}

\* C22: whatever the branch taken, the body the tokenizing parser returns
\* does not begin with a newline, and it is an end of the content: only
\* leading newlines were taken off.
C22_BodyHasNoLeadingNewline ==
    (Parsed /\ pure.raises = "none") =>
       /\ ~ BeginsWithNewline(pure.body)
       /\ pure.body \in Suffixes(pure.content)

\* 'a: b', two empty lines and 'c': the body is 'c' alone.
C22_Witness ==
    /\ Parsed
    /\ pure.content = <<KeyValueLine, BlankLine, BlankLine, PlainLine>>
    /\ pure.raises = "none"
    /\ pure.meta = <<KeyValueLine>>
    /\ pure.body = <<PlainLine>>

\* The legacy parser was applied.
ParsedLegacy == pure.op = "legacy_parser"

\* The lines of the content that are empty or of white space only.
BlankLines(content) ==
    {i \in 1..Len(content) : content[i] \in {BlankLine, SpaceLine}}

\* C23: under the legacy parser the metadata is the lines before the first
\* line that is empty or of white space only, that line is dropped, and the
\* body is the lines after it joined as they are; with such a line first
\* the metadata is empty, with none the content is the metadata and the body
\* is empty.
C23_LegacySplitsAtTheFirstBlankLine ==
    ParsedLegacy =>
      LET content == pure.content
          blanks == BlankLines(content)
          first == CHOOSE i \in blanks : \A j \in blanks : i <= j
      IN  /\ pure.raises = "none"
          /\ blanks = {} => pure.meta = content /\ pure.body = <<"">>
          /\ blanks # {} =>
                /\ pure.meta = JoinLines(SubSeq(content, 1, first - 1))
                /\ pure.body =
                      JoinLines(SubSeq(content, first + 1, Len(content)))
          /\ (blanks # {} /\ first = 1) => pure.meta = <<"">>

\* 'a: b', a line of one space, an empty line and 'c': the metadata is
\* 'a: b' and the body keeps the empty line before 'c'.
C23_Witness ==
    /\ ParsedLegacy
    /\ pure.content = <<KeyValueLine, SpaceLine, BlankLine, PlainLine>>
    /\ pure.meta = <<KeyValueLine>>
    /\ pure.body = <<BlankLine, PlainLine>>

\* The content was given to both parsers.
ParsedBothWays == pure.op = "parsers"

\* The line of the block scalar's header (0 for none) and the last of its
\* indented lines.
BlockHeader(content) ==
    LET headers == {i \in 1..Len(content) : content[i] = BlockScalarLine}
    IN  IF headers = {} THEN 0
        ELSE CHOOSE i \in headers : \A j \in headers : i <= j

BlockLast(content) ==
    LET header == BlockHeader(content)
        within == {j \in header..Len(content) :
                     /\ j > header => content[j] = IndentedLine
                     /\ \A k \in (header + 1)..j :
                           content[k] \in {IndentedLine, BlankLine}}
    IN  CHOOSE j \in within : \A k \in within : k <= j

\* The content holds a block scalar with an empty line inside it, nothing
\* blank before it, and text after it.
BlockWithBlankLineAndBody(content) ==
    /\ BlockHeader(content) > 0
    /\ BlankLines(SubSeq(content, 1, BlockHeader(content))) = {}
    /\ \E b \in (BlockHeader(content) + 1)..(BlockLast(content) - 1) :
          content[b] = BlankLine
    /\ \E j \in (BlockLast(content) + 1)..Len(content) :
          content[j] # BlankLine

C25_ControlCharacterAlwaysRaises ==
    (/\ Parsed
     /\ \E i \in 1..Len(pure.content) : pure.content[i] = ControlCharLine)
    => pure.raises = "ReaderError"

\* The metadata of a page was decoded by itself.
MetaLoaded == pure.op = "load_meta"

\* The documents of the text that are present and are no mapping.
NotMappings(documents) ==
    {i \in 1..Len(documents) : documents[i].type \notin {"NoneType", "dict"}}

\* C26: a metadata text that decodes to a value that is present and is no
\* mapping makes the decoding raise the error whose message names the page's
\* path and the type of the value; the decoding gives for it neither {} nor
\* a mapping made of the elements of the value.
C26_NonMappingRaisesNamingPathAndType ==
    (MetaLoaded /\ NotMappings(pure.documents) # {})
    => /\ pure.result.raises = "ValueError"
       /\ \E i \in NotMappings(pure.documents) :
              pure.result.args = <<pure.path, pure.documents[i].type>>

\* The documents of the text that are empty: None, or a dict, a list or a
\* str with nothing in it.
EmptyDocuments(documents) ==
    {i \in 1..Len(documents) :
        \/ documents[i].type = "NoneType"
        \/ /\ documents[i].type \in {"dict", "list", "str"}
           /\ documents[i].items = << >>
           /\ documents[i].dict = EmptyDict}

\* C27: the metadata the decoding returns is a mapping, never None; for a
\* text that is empty, that holds document markers only, or whose documents
\* are all empty, it returns the empty mapping.
C27_MetadataIsAMappingAndEmptyGivesEmpty ==
    MetaLoaded
    => /\ pure.result.raises = "none" => pure.result.meta.type = "dict"
       /\ EmptyDocuments(pure.documents) = 1..Len(pure.documents)
          => /\ pure.result.raises = "none"
             /\ pure.result.meta = PyDict(EmptyDict)

\* A text of two document markers was decoded: two None documents, and the
\* empty mapping returned.
C27_Witness ==
    /\ MetaLoaded
    /\ pure.meta_yaml = <<DocumentStartLine, DocumentStartLine>>
    /\ pure.documents = <<PyNone, PyNone>>
    /\ pure.result = Meta("none", "", << >>, PyDict(EmptyDict))

\* The last document that holds the key, 0 when none does.
LastWith(documents, key) ==
    LET with == {i \in 1..Len(documents) : key \in DOMAIN documents[i].dict}
    IN  IF with = {} THEN 0 ELSE CHOOSE i \in with : \A j \in with : j <= i

\* C28: for a metadata text of several documents, each a mapping or None,
\* the decoded metadata holds the keys of all the documents, each with the
\* value of the last document that holds it; None documents add nothing.
C28_DocumentsMergeLaterWins ==
    (MetaLoaded /\ NotMappings(pure.documents) = {})
    => /\ pure.result.raises = "none"
       /\ \A key \in MetaKeys :
              IF LastWith(pure.documents, key) = 0
              THEN key \notin DOMAIN pure.result.meta.dict
              ELSE /\ key \in DOMAIN pure.result.meta.dict
                   /\ pure.result.meta.dict[key] =
                          pure.documents[LastWith(pure.documents, key)]
                              .dict[key]

\* Two documents with the same key and a None document between them were
\* decoded, and the value is that of the later one.
C28_Witness ==
    /\ MetaLoaded
    /\ pure.meta_yaml =
           <<KeyValueLine, DocumentStartLine, DocumentStartLine,
             OtherValueLine>>
    /\ Len(pure.documents) = 3
    /\ pure.documents[2] = PyNone
    /\ pure.result.raises = "none"
    /\ pure.result.meta.dict["a"] = <<"c">>

\* A page was indexed with a key.
GotItem == pure.op = "__getitem__"

\* C29: page[key] is the value the decoded metadata of the page holds under
\* the key, and raises KeyError when the metadata holds no such key; it
\* gives no default.
C29_ItemIsTheMetadataValueOrKeyError ==
    (GotItem /\ pure.meta.raises = "none")
    => IF pure.name \in DOMAIN pure.meta.meta.dict
       THEN /\ pure.item.raises = "none"
            /\ pure.item.value = pure.meta.meta.dict[pure.name]
       ELSE pure.item.raises = "KeyError"

\* A page with the metadata a: b was indexed with the key b, which it does
\* not hold.
C29_Witness ==
    /\ GotItem
    /\ pure.meta_yaml = <<KeyValueLine>>
    /\ pure.meta.meta.dict["a"] = <<"b">>
    /\ pure.name = "b"
    /\ pure.item.raises = "KeyError"

\* The html of a page was read.
Rendering == pure.op = "html"

\* C30: when a page is rendered its renderer is called with the body if it
\* declares one argument or has no signature to read, with the body and the
\* table if it declares two, with the body, the table and the page if it
\* declares three; with any other count the render raises ValueError
\* formatted with the renderer and the count, nothing is kept for the page,
\* so that every later render raises again, and the get that gave the page
\* did not raise.
C30_RendererCalledByItsArguments ==
    /\ ret # NoOutcome => ret.raised = "none"
    /\ Rendering
       => LET n == heap[pure.page].html_renderer
          IN  /\ (pure.called /\ n \in {NoArgSpec, 1})
                 => pure.call = Call(<<"body">>)
              /\ (pure.called /\ n = 2)
                 => pure.call = Call(<<"body", "self">>)
              /\ (pure.called /\ n = 3)
                 => pure.call = Call(<<"body", "self", "page">>)
              /\ n \notin {NoArgSpec, 1, 2, 3}
                 => /\ ~ pure.called
                    /\ pure.raised
                    /\ pure.call.raises = "ValueError"
                    /\ pure.call.format = <<"html_renderer", n>>
                    /\ ~ HtmlCached(heap[pure.page])

\* A get gave a page whose renderer declares four arguments, and reading
\* its html raised ValueError.
C30_Witness ==
    /\ Rendering
    /\ ret # NoOutcome
    /\ ret.raised = "none"
    /\ ret.page = pure.page
    /\ heap[pure.page].html_renderer = 4
    /\ pure.call.raises = "ValueError"
    /\ pure.raised

\* The table was built from an extension given in one of its forms.
WalkedForm == pure.op = "_pages"

\* C31: the extension strings given as a comma-separated string, a list, a
\* set or a tuple give the keys the tuple of these strings gives, a string
\* with no comma being the tuple of this one string.
C31_EveryFormGivesTheSameKeys ==
    WalkedForm
    => pure.pages = WalkedKeys(config,
                               {File(<<>>, name) : name \in pure.names},
                               pure.items)

\* The configured extension is no string, list, set or tuple.
InvalidExtension == config.extension.type \notin {"str", "list", "set", "tuple"}

\* C32: with an extension that is no string, list, set or tuple, every call
\* that builds the table ends with ValueError, raised before a walk starts
\* and before any file is loaded: no page is made, the file cache stays
\* empty and no snapshot is installed; the table as constructed and reload
\* raise nothing.
C32_InvalidExtensionRaisesBeforeLoading ==
    InvalidExtension
    => /\ ret # NoOutcome => ret.raised = "ValueError"
       /\ ret # NoOutcome => ret.walked = "alone" /\ ret.load = NoLoad
       /\ ~ walk.active
       /\ ~ _pages.built
       /\ heap = <<>>
       /\ _file_cache = EmptyDict

\* A get on a table with the extension 42 has raised ValueError.
C32_Witness ==
    /\ config.extension = ExtInt
    /\ ret # NoOutcome
    /\ ret.raised = "ValueError"
    /\ ~ _pages.built
    /\ heap = <<>>

\* A table was built with case folding and asked for a path.
GotFolded == pure.op = "get" /\ pure.case_insensitive

\* The path of a file as written: its directory segments and its stem.
WrittenPath(f) == ExpectedPath(f.dir, f.name, <<ExtH>>)

\* Lower-case letters only.
IsLower(s) == \A i \in 1..Len(s) : s[i] \notin {"A", "B", "D"}

\* C33: with case-insensitivity enabled the keys of the snapshot are the
\* lower-cased logical paths of the files; two files whose paths differ by
\* letter case only make the walk raise the collision error; and get
\* compares its argument with the keys as they are, so that a path with an
\* upper-case letter gets the default.
C33_KeysAreFoldedAndGetIsExact ==
    GotFolded
    => /\ IF \E f, g \in pure.files :
                 /\ f # g
                 /\ Lower(WrittenPath(f)) = Lower(WrittenPath(g))
          THEN pure.walked.raises = "ValueError"
          ELSE /\ pure.walked.raises = "none"
               /\ DOMAIN pure.walked.pages
                      = {Lower(WrittenPath(f)) : f \in pure.files}
               /\ \A key \in DOMAIN pure.walked.pages : IsLower(key)
               /\ \A key \in DOMAIN pure.walked.pages :
                      Lower(WrittenPath(pure.walked.pages[key])) = key
       /\ pure.walked.raises = "none"
          => /\ ~ IsLower(pure.path) => pure.got.value = "None"
             /\ pure.path \in DOMAIN pure.walked.pages
                   => pure.got.page = pure.walked.pages[pure.path]

\* The file A.h alone is listed under a, and get("A") gave the default.
C33_Witness ==
    /\ GotFolded
    /\ pure.files = {File(<<>>, <<"A", ".", "h">>)}
    /\ DOMAIN pure.walked.pages = {<<"a">>}
    /\ pure.path = <<"A">>
    /\ pure.got.value = "None"

\* toml_parser was applied to a content.
ParsedToml == pure.op = "toml_parser"

\* The numbers of the delimiter lines of a content, and the n-th of them.
DelimiterLines(content) == {i \in 1..Len(content) : content[i] = Delimiter}

NthDelimiter(content, n) ==
    CHOOSE i \in DelimiterLines(content) :
        Cardinality({j \in DelimiterLines(content) : j < i}) = n - 1

\* C34: for a content with two delimiter lines or more, the metadata text is
\* the lines strictly between the first and the second delimiter line, and
\* the body is everything after the second delimiter line, its leading blank
\* lines stripped.
C34_BlockIsBetweenTheFirstTwoDelimiters ==
    (ParsedToml /\ Cardinality(DelimiterLines(pure.content)) >= 2)
    => /\ pure.parsed.toml_str
              = JoinLines(SubSeq(pure.content,
                                 NthDelimiter(pure.content, 1) + 1,
                                 NthDelimiter(pure.content, 2) - 1))
       /\ pure.parsed.raises = "none"
          => pure.parsed.text
                 = LStripNewlines(JoinLines(SubSeq(pure.content,
                                      NthDelimiter(pure.content, 2) + 1,
                                      Len(pure.content))))

FreshEntry(f) ==
    /\ FullName(config.root, f) \in DOMAIN _file_cache
    /\ fs[f].exists
    /\ _file_cache[FullName(config.root, f)][2] = fs[f].mtime

\* C36: when every write gives the file a later mtime, a file-cache entry
\* whose mtime is the current mtime of its file holds a page parsed from the
\* current content of the file, whatever was written during the walks.
C36_FreshEntryHoldsTheCurrentContent ==
    \A f \in Files :
        FreshEntry(f)
        => ParsedFromNow(_file_cache[FullName(config.root, f)][1], f)

\* A write landed between the stat and the read of a.h: the page made then
\* was stored with the older mtime, and the walk after the next reload made
\* a second page from the same content, stored with the current mtime.
C36_Witness ==
    /\ FreshEntry(FileAH)
    /\ fs[FileAH].content = MetaText
    /\ fs[FileAH].mtime = 2
    /\ \E first \in 1..Len(heap) :
          /\ first < _file_cache[FullName(config.root, FileAH)][1]
          /\ heap[first]
                 = heap[_file_cache[FullName(config.root, FileAH)][1]]

\* File f is listed by a walk and loading it raises: it holds a content the
\* parser refuses and the file cache has no page of its mtime.
FailsToLoad(f) ==
    /\ fs[f].exists
    /\ \E extension \in NormalizedExtension(config.extension) :
          /\ NameEndsWith(f.name, extension)
          /\ _parse(config, fs[f].content,
                    LogicalPath(config, extension, f)).raises # "none"
    /\ ~ CacheHit(_file_cache, FullName(config.root, f), getmtime(fs[f]))

\* The errors that loading the files of the tree raises now.
LoadErrors ==
    {_parse(config, fs[f].content, <<>>).raises :
        f \in {g \in Files : FailsToLoad(g)}}

\* C37: a call that walks the tree while a file fails to load ends with an
\* error, the one of a file that fails or the collision error, whatever
\* path it asks for; it returns no page, no default and no iterator, and no
\* snapshot is installed, so that the next call walks and fails again as
\* long as the file is as it is.
C37_OneBadFileFailsEveryCall ==
    (/\ ret # NoOutcome
     /\ ret.walked = "alone"
     /\ \E f \in Files : FailsToLoad(f))
    => /\ ret.raised \in LoadErrors \cup {"ValueError"}
       /\ ret.page = 0
       /\ ret.pages = {}
       /\ ret.value = "None"
       /\ ~ _pages.built

\* The page of d/b.h was made and cached, then a.h, cached before with an
\* older mtime, failed to load: the call raised the parser's error.
C37_Witness ==
    /\ ret # NoOutcome
    /\ ret.walked = "alone"
    /\ FailsToLoad(FileAH)
    /\ ret.raised \in LoadErrors
    /\ ret.raised # "ValueError"
    /\ FullName(config.root, FileDBH) \in DOMAIN _file_cache
    /\ FullName(config.root, FileAH) \in DOMAIN _file_cache
    /\ ~ _pages.built

\* A tree of two files was walked with a single extension.
WalkedTwo == pure.op = "_pages" /\ Len(pure.extension) = 1

\* C38: with a single accepted extension and no case folding, the walk of
\* two distinct files never raises the collision error: they have distinct
\* logical paths.
C38_OneExtensionNeverCollides ==
    WalkedTwo => pure.walked.raises = "none"

\* A parser split a content and raised nothing.
SplitByLegacy == pure.op = "legacy_parser" /\ pure.raises = "none"

SplitByTokens == pure.op = "libyaml_parser" /\ pure.raises = "none"

\* The lines of a text a parser returns.  The empty text is what the join of
\* no line gives; as a body after the one blank line the legacy parser
\* drops, it is also what the join of one empty line gives.
NoLineIfEmpty(text) == IF text = <<"">> THEN <<>> ELSE text

OneLineOrNone(text) == IF text = <<"">> THEN {<<>>, <<"">>} ELSE {text}

\* The first line of the content that strips to nothing, as a sequence of
\* one line; no line when there is none.
FirstBlank(content) ==
    LET blank == {i \in 1..Len(content) : Strip(content[i]) = ""}
    IN  IF blank = {} THEN <<>>
        ELSE <<content[CHOOSE i \in blank : \A j \in blank : i <= j]>>

\* C39: for both parsers and every content that is split, the lines of the
\* content are the lines of the metadata, then the separator that is
\* dropped (the first blank line for the legacy parser when there is one;
\* some number of empty lines for the tokenizing parser), then the lines of
\* the body, in this order.
C39_SplitLosesNoLine ==
    /\ SplitByLegacy
       => \E body \in OneLineOrNone(pure.body) :
             pure.content
                 = NoLineIfEmpty(pure.meta) \o FirstBlank(pure.content)
                       \o body
    /\ SplitByTokens
       => \E n \in 0..Len(pure.content) :
             pure.content
                 = NoLineIfEmpty(pure.meta) \o [i \in 1..n |-> BlankLine]
                       \o NoLineIfEmpty(pure.body)

\* The tokenizing parser dropped the two empty lines between the entry and
\* the text.
C39_Witness ==
    /\ SplitByTokens
    /\ pure.content = <<KeyValueLine, BlankLine, BlankLine, PlainLine>>
    /\ pure.meta = <<KeyValueLine>>
    /\ pure.body = <<PlainLine>>

\* The directories a walk has still to list: those on its stack and the
\* ones below them.
Unlisted(w) ==
    {d \in Dirs : \E i \in 1..Len(w.dirs) :
        /\ Len(w.dirs[i]) <= Len(d)
        /\ SubSeq(d, 1, Len(w.dirs[i])) = w.dirs[i]}

\* What a walk has still to do: the directories to list, each with as many
\* files as there are, then the names in hand, a name being done in two
\* steps when its file is read.
Rank(w) ==
    (2 * Cardinality(Files) + 1) * Cardinality(Unlisted(w))
        + 2 * Cardinality(w.names) - (IF w.cur.set THEN 1 ELSE 0)

\* No more Page object can be made within the bound of the model.
HeapIsFull == Len(heap) = MaxPages

\* C40: a call that walks the tree ends, by returning or by raising, when
\* the thread runs on: every step of the walk lowers what is left to do
\* (the directories to list and the names in hand, each file being handled
\* once), whatever is written meanwhile, and a walk in progress is
\* eventually over.
C40_EveryWalkEnds ==
    /\ [][(walk.active /\ walk'.active /\ fs' = fs)
             => (Rank(walk') < Rank(walk) /\ Rank(walk') >= 0)]_vars
    /\ walk.active ~> (~ walk.active \/ HeapIsFull)

\* A walk that made a page for each of two files has ended by returning.
C40_Witness ==
    /\ ret.op \in {"get", "iter"}
    /\ ret.walked = "alone"
    /\ ret.raised = "none"
    /\ ~ walk.active
    /\ Len(heap) = 2
    /\ _pages.built

====
